---- MODULE Spec2Model ----
(***************************************************************************)
(* Deployment orchestration engine of zephyr: the lock protocol            *)
(* (deploy/locks.mjs), the snapshot manager (deploy/snapshots.mjs), the    *)
(* task planner (utils/task-planner.mjs), the remote executor              *)
(* (deploy/remote-exec.mjs) and the orchestrator runRemoteTasks / main     *)
(* (main.mjs).                                                             *)
(*                                                                         *)
(* One remote project directory is shared by the runs; every run works     *)
(* from a local project directory on a workstation.  A file holds the      *)
(* value that JSON.parse gives back for it; an absent file is <<>> and a   *)
(* present one <<value>>.  Strings that the code builds by concatenation   *)
(* are sequences of tokens joined with \o.  A remote command is atomic on  *)
(* the remote host; every await of the code is a step of its own.          *)
(***************************************************************************)
EXTENDS Integers, Sequences, FiniteSets, TLC

VARIABLES
  remoteLock,   \* <remoteCwd>/.zephyr/deploy.lock
  remoteSnap,   \* <remoteCwd>/.zephyr/pending-tasks.json
  localLock,    \* per workstation: <rootDir>/.zephyr/deploy.lock
  localSnap,    \* per workstation: <rootDir>/.zephyr/pending-tasks.json
  clock,        \* last value read from the wall clock (ms)
  scenario,     \* the environment the runs work in (see Scenarios)
  run,          \* per run: the locals of main / runRemoteTasks
  repo,         \* the local git repository and the locals of the reconciler
  planner,      \* one call of planLaravelDeploymentTasks: arguments and result
  exec          \* one call of executeRemote: arguments, result and what it logged

vars == <<remoteLock, remoteSnap, localLock, localSnap, clock, scenario, run,
          repo, planner, exec>>

(* ---------------------------------------------------------------------- *)
(* Bounds and universes                                                    *)
(* ---------------------------------------------------------------------- *)
MaxClock == 1

Runs == {"r1", "r2"}
Workstations == {"ws1", "ws2"}
Branches == {"main", "develop"}
ServerNames == {"production"}

None == <<>>
Some(x) == <<x>>
IsSome(f) == f # <<>>
Val(f) == f[1]

(* ---------------------------------------------------------------------- *)
(* Workstation identity: os.userInfo().username, os.hostname(), process.pid*)
(* ---------------------------------------------------------------------- *)
UserOf(w) == IF w = "ws1" THEN <<"deploy">> ELSE <<"ops", "@", "corp">>
HostOf(w) == IF w = "ws1" THEN <<"ws1">> ELSE <<"ws2">>
PidOf(r) == IF r = "r1" THEN 4101 ELSE 4102

Digit(d) == <<"0", "1", "2", "3", "4", "5", "6", "7", "8", "9">>[d + 1]

\* String(n) for a non-negative integer
RECURSIVE Digits(_)
Digits(n) == IF n < 10 THEN <<Digit(n)>> ELSE Digits(n \div 10) \o <<Digit(n % 10)>>

Pad3(n) == <<Digit((n \div 100) % 10), Digit((n \div 10) % 10), Digit(n % 10)>>

\* new Date().toISOString() for the instant t ms after the epoch of the model
ToISOString(t) == <<"2026-01-01T00:00:00.">> \o Pad3(t) \o <<"Z">>

createLockPayload(r, w, t) ==
  [user |-> UserOf(w), pid |-> PidOf(r), hostname |-> HostOf(w),
   startedAt |-> ToISOString(t)]

\* variant: the key leaves startedAt out
LockKey_NoStartedAt(lock) ==
  lock.user \o <<"@">> \o lock.hostname \o <<":">> \o Digits(lock.pid)

\* `${lock.user}@${lock.hostname}:${lock.pid}:${lock.startedAt}`
LockKey(lock) ==
  lock.user \o <<"@">> \o lock.hostname \o <<":">> \o Digits(lock.pid)
    \o <<":">> \o lock.startedAt

(* ---------------------------------------------------------------------- *)
(* Paths: a repository-relative path is the sequence of its segments and   *)
(* separators, the last dot-suffix of the file name being one token.       *)
(* ---------------------------------------------------------------------- *)
EndsWith(file, suffix) ==
  /\ Len(file) >= Len(suffix)
  /\ SubSeq(file, Len(file) - Len(suffix) + 1, Len(file)) = suffix

StartsWith(file, prefix) ==
  /\ Len(file) >= Len(prefix)
  /\ SubSeq(file, 1, Len(prefix)) = prefix

\* variant: stylesheets written in Sass are not frontend sources
FrontendExts_NoScss == {<<".vue">>, <<".css">>, <<".js">>, <<".ts">>, <<".tsx">>,
                        <<".less">>}

FrontendExts == {<<".vue">>, <<".css">>, <<".scss">>, <<".js">>, <<".ts">>,
                 <<".tsx">>, <<".less">>}

IsComposerFile(file) ==
  \/ file = <<"composer", ".json">>
  \/ file = <<"composer", ".lock">>
  \/ EndsWith(file, <<"/", "composer", ".json">>)
  \/ EndsWith(file, <<"/", "composer", ".lock">>)

IsMigrationFile(file) ==
  /\ StartsWith(file, <<"database", "/", "migrations", "/">>)
  /\ EndsWith(file, <<".php">>)

\* variant: only the files under app/ count as PHP changes
IsPhpFile_AppOnly(file) ==
  /\ StartsWith(file, <<"app", "/">>)
  /\ EndsWith(file, <<".php">>)

IsPhpFile(file) == EndsWith(file, <<".php">>)

IsNpmFile(file) ==
  \/ file = <<"package", ".json">>
  \/ file = <<"package-lock", ".json">>
  \/ EndsWith(file, <<"/", "package", ".json">>)
  \/ EndsWith(file, <<"/", "package-lock", ".json">>)

IsFrontendFile(file) == \E ext \in FrontendExts : EndsWith(file, ext)

PhpCommand == <<"php">>

\* variant: the pull names the default branch
PullStep_Main(branch) ==
  [label |-> <<"Pull latest changes for ", "main">>,
   command |-> <<"git pull origin ", "main">>]

PullStep(branch) ==
  [label |-> <<"Pull latest changes for ", branch>>,
   command |-> <<"git pull origin ", branch>>]
ComposerStep ==
  [label |-> <<"Install Composer dependencies">>,
   command |-> <<"composer.lock check; ">> \o PhpCommand
                 \o <<" composer install --no-dev">>]
MigrateStep ==
  [label |-> <<"Run database migrations">>,
   command |-> PhpCommand \o <<" artisan migrate --force">>]
NpmInstallStep ==
  [label |-> <<"Install Node dependencies">>, command |-> <<"npm install">>]
BuildStep ==
  [label |-> <<"Compile frontend assets">>, command |-> <<"npm run build">>]
ClearCachesStep ==
  [label |-> <<"Clear Laravel caches">>,
   command |-> PhpCommand \o <<" artisan cache:clear && ">> \o PhpCommand
                 \o <<" artisan config:clear && ">> \o PhpCommand
                 \o <<" artisan view:clear">>]
\* variant: the queue workers are restarted whether Horizon is configured
\* or not
QueueStep_AlwaysRestart(horizonConfigured) ==
  [label |-> <<"Restart queue workers">>,
   command |-> PhpCommand \o <<" artisan queue:restart">>]

QueueStep(horizonConfigured) ==
  IF horizonConfigured
  THEN [label |-> <<"Restart Horizon workers">>,
        command |-> PhpCommand \o <<" artisan horizon:terminate">>]
  ELSE [label |-> <<"Restart queue workers">>,
        command |-> PhpCommand \o <<" artisan queue:restart">>]

\* variant: every optional step is pushed
Opt_Always(cond, step) == <<step>>

\* `if (cond) { steps.push(step) }`
Opt(cond, step) == IF cond THEN <<step>> ELSE <<>>

\* variant: the migrations are pushed before the Composer install
planLaravelDeploymentTasks_MigrateFirst(branch, isLaravel, changedFiles, horizonConfigured) ==
  LET shouldRunComposer == isLaravel /\ (\E i \in 1..Len(changedFiles) : IsComposerFile(changedFiles[i]))
      shouldRunMigrations == isLaravel /\ (\E i \in 1..Len(changedFiles) : IsMigrationFile(changedFiles[i]))
      hasPhpChanges == isLaravel /\ (\E i \in 1..Len(changedFiles) : IsPhpFile(changedFiles[i]))
      shouldRunNpmInstall == isLaravel /\ (\E i \in 1..Len(changedFiles) : IsNpmFile(changedFiles[i]))
      hasFrontendChanges == isLaravel /\ (\E i \in 1..Len(changedFiles) : IsFrontendFile(changedFiles[i]))
      shouldRunBuild == isLaravel /\ (hasFrontendChanges \/ shouldRunNpmInstall)
  IN  <<PullStep(branch)>>
        \o Opt(shouldRunMigrations, MigrateStep)
        \o Opt(shouldRunComposer, ComposerStep)
        \o Opt(shouldRunNpmInstall, NpmInstallStep)
        \o Opt(shouldRunBuild, BuildStep)
        \o Opt(hasPhpChanges, ClearCachesStep)
        \o Opt(hasPhpChanges, QueueStep(horizonConfigured))

\* variant: only changed frontend sources schedule the build
planLaravelDeploymentTasks_BuildOnFrontend(branch, isLaravel, changedFiles, horizonConfigured) ==
  LET shouldRunComposer == isLaravel /\ (\E i \in 1..Len(changedFiles) : IsComposerFile(changedFiles[i]))
      shouldRunMigrations == isLaravel /\ (\E i \in 1..Len(changedFiles) : IsMigrationFile(changedFiles[i]))
      hasPhpChanges == isLaravel /\ (\E i \in 1..Len(changedFiles) : IsPhpFile(changedFiles[i]))
      shouldRunNpmInstall == isLaravel /\ (\E i \in 1..Len(changedFiles) : IsNpmFile(changedFiles[i]))
      hasFrontendChanges == isLaravel /\ (\E i \in 1..Len(changedFiles) : IsFrontendFile(changedFiles[i]))
      shouldRunBuild == isLaravel /\ hasFrontendChanges
      shouldClearCaches == hasPhpChanges
      shouldRestartQueues == hasPhpChanges
  IN  <<PullStep(branch)>>
        \o Opt(shouldRunComposer, ComposerStep)
        \o Opt(shouldRunMigrations, MigrateStep)
        \o Opt(shouldRunNpmInstall, NpmInstallStep)
        \o Opt(shouldRunBuild, BuildStep)
        \o Opt(shouldClearCaches, ClearCachesStep)
        \o Opt(shouldRestartQueues, QueueStep(horizonConfigured))

planLaravelDeploymentTasks(branch, isLaravel, changedFiles, horizonConfigured) ==
  LET shouldRunComposer == isLaravel /\ (\E i \in 1..Len(changedFiles) : IsComposerFile(changedFiles[i]))
      shouldRunMigrations == isLaravel /\ (\E i \in 1..Len(changedFiles) : IsMigrationFile(changedFiles[i]))
      hasPhpChanges == isLaravel /\ (\E i \in 1..Len(changedFiles) : IsPhpFile(changedFiles[i]))
      shouldRunNpmInstall == isLaravel /\ (\E i \in 1..Len(changedFiles) : IsNpmFile(changedFiles[i]))
      hasFrontendChanges == isLaravel /\ (\E i \in 1..Len(changedFiles) : IsFrontendFile(changedFiles[i]))
      shouldRunBuild == isLaravel /\ (hasFrontendChanges \/ shouldRunNpmInstall)
      shouldClearCaches == hasPhpChanges
      shouldRestartQueues == hasPhpChanges
  IN  <<PullStep(branch)>>
        \o Opt(shouldRunComposer, ComposerStep)
        \o Opt(shouldRunMigrations, MigrateStep)
        \o Opt(shouldRunNpmInstall, NpmInstallStep)
        \o Opt(shouldRunBuild, BuildStep)
        \o Opt(shouldClearCaches, ClearCachesStep)
        \o Opt(shouldRestartQueues, QueueStep(horizonConfigured))

Labels(steps) == [i \in 1..Len(steps) |-> steps[i].label]

(* ---------------------------------------------------------------------- *)
(* What `git diff --name-only HEAD..origin/<branch>` can print             *)
(* ---------------------------------------------------------------------- *)
FPhp == <<"app", "/", "Models", "/", "User", ".php">>
FComposer == <<"composer", ".json">>
FMigration == <<"database", "/", "migrations", "/", "2025_01_01_create_x", ".php">>
FAppJs == <<"resources", "/", "js", "/", "app", ".js">>

\* stdout as its lines after split(/\r?\n/): the text ends with a newline, so
\* the last line is empty
DiffStdouts ==
  { << <<>> >>, <<FPhp, <<>> >>, <<FComposer, FMigration, FAppJs, <<>> >> }

NonEmptyLine(line) == line # <<>>

\* diffResult.stdout.split(/\r?\n/).map(trim).filter(Boolean)
ParseDiff(lines) == SelectSeq(lines, NonEmptyLine)

(* ---------------------------------------------------------------------- *)
(* State of one run                                                        *)
(* ---------------------------------------------------------------------- *)
IdleRun ==
  [pc |-> "idle", ws |-> "ws1",
   config |-> [serverName |-> "production", branch |-> "main",
               projectPath |-> "~/app", sshUser |-> "forge"],
   snapshot |-> None, lockAcquired |-> FALSE,
   checkResult |-> None, cmpLocal |-> None, cmpRemote |-> None,
   cmpFrom |-> "none", removed |-> FALSE,
   isLaravel |-> FALSE, changedFiles |-> <<>>, horizonConfigured |-> FALSE,
   steps |-> <<>>, pendingSnapshot |-> None, completed |-> FALSE,
   error |-> "none", outcome |-> "none",
   trace |-> <<>>, executed |-> <<>>,
   promptDefault |-> None, resumePendingTasks |-> None, cause |-> "none"]

GoneRun == [IdleRun EXCEPT !.pc = "gone"]

InFlight(r) == run[r].pc \notin {"idle", "gone"}

\* variant: the run goes on to the connection after a failed local check
ThrowRaw_GoesOn(rec, cause) ==
  [rec EXCEPT !.error = "raw", !.cause = cause, !.pc = "connect"]

\* main rejects outside the try block of runRemoteTasks (in main itself or in
\* main.mjs 387-421): the error is not wrapped and no cleanup runs
ThrowRaw(rec, cause) ==
  [rec EXCEPT !.error = "raw", !.cause = cause, !.pc = "exit"]

WsChoices(r) == IF r = "r1" THEN {"ws1"} ELSE Workstations

\* the instants a read of the wall clock can give
ClockReads == {t \in {clock, clock + 1} : t <= MaxClock}

Log(rec, event) == [rec EXCEPT !.trace = Append(@, event)]

LogAll(rec, events) == [rec EXCEPT !.trace = @ \o events]

\* variant: the failure path leaves without the lock cleanup
Throw_NoCleanup(rec) == [rec EXCEPT !.error = "wrapped", !.pc = "dispose"]

\* a throw inside the try block of runRemoteTasks (main.mjs 576-594)
Throw(rec) ==
  [rec EXCEPT !.error = "wrapped",
              !.cmpFrom = IF rec.lockAcquired THEN "catch" ELSE @,
              !.pc = IF rec.lockAcquired THEN "cmp_local" ELSE "dispose"]

Fs == <<remoteLock, remoteSnap, localLock, localSnap>>

\* what no step of a run changes
Env == <<scenario, repo, planner, exec>>

\* the reconciler is not running: a clean checkout of main that tracks
\* origin/main
OffRepo ==
  [pc |-> "off", targetBranch |-> "main",
   branch |-> "main", tree |-> <<>>, upstream |-> "origin", refExists |-> TRUE,
   ahead |-> [b \in Branches |-> 0], behind |-> [b \in Branches |-> 0],
   currentBranch |-> "", initialStatus |-> <<>>, hasPendingChanges |-> FALSE,
   aheadCount |-> 0, behindCount |-> 0,
   statusAfterCheckout |-> <<>>, finalStatus |-> None, upstreamRef |-> None,
   cause |-> "none", trace |-> <<>>,
   start |-> [branch |-> "main", tree |-> <<>>]]

\* the planner is not being called
OffPlanner ==
  [pc |-> "off", branch |-> "main", isLaravel |-> FALSE, changedFiles |-> <<>>,
   horizonConfigured |-> FALSE, steps |-> <<>>]

\* executeRemote is not being called
OffExec ==
  [pc |-> "off", label |-> "", command |-> "", allowFailure |-> FALSE,
   result |-> [stdout |-> <<>>, stderr |-> <<>>, code |-> 0],
   events |-> <<>>, message |-> <<>>]

\* a pending snapshot that an earlier deployment of the same project to
\* another server left in <rootDir>/.zephyr/pending-tasks.json
LeftoverSnapshot ==
  [serverName |-> "staging", branch |-> "main",
   projectPath |-> "~/app", sshUser |-> "forge",
   createdAt |-> ToISOString(0), changedFiles |-> <<FAppJs>>,
   taskLabels |-> Labels(planLaravelDeploymentTasks("main", TRUE, <<FAppJs>>, FALSE))]

NoSnapshots == [w \in Workstations |-> None]

InitFiles ==
  /\ remoteLock = None
  /\ remoteSnap = None
  /\ localLock = [w \in Workstations |-> None]
  /\ clock = 0
  /\ run = [r \in Runs |-> IdleRun]

\* "sequential": one invocation after the other, every remote state;
\* "faulty": the same, and file and lock-marker operations may fail;
\* "concurrent": invocations overlap, against a Laravel project whose
\*  pending change is one frontend file
\* the reconciler, the planner and the executor are not looked at on their own
NoCalls == repo = OffRepo /\ planner = OffPlanner /\ exec = OffExec

Init ==
  /\ InitFiles
  /\ NoCalls
  /\ scenario = "sequential"
  /\ localSnap \in {NoSnapshots, [NoSnapshots EXCEPT !["ws1"] = Some(LeftoverSnapshot)]}

InitConc ==
  InitFiles /\ NoCalls /\ scenario = "concurrent" /\ localSnap = NoSnapshots

InitFaults ==
  InitFiles /\ NoCalls /\ scenario = "faulty" /\ localSnap = NoSnapshots

\* the results an operation that can fail may have
Oks == IF scenario = "faulty" THEN BOOLEAN ELSE {TRUE}

\* the exit codes of `rm -f` on a lock marker
RmCodes == IF scenario = "faulty" THEN {0, 1, 2} ELSE {0}

LaravelProbes == IF scenario = "concurrent" THEN {TRUE} ELSE BOOLEAN

HorizonProbes == IF scenario = "concurrent" THEN {FALSE} ELSE BOOLEAN

DiffResults == IF scenario = "concurrent" THEN {<<FAppJs, <<>> >>} ELSE DiffStdouts

TargetBranches == IF scenario = "concurrent" THEN {"main"} ELSE Branches

\* invocations are numbered in the order they start
NextRun == IF run["r1"].pc = "idle" THEN "r1" ELSE "r2"

(* ---------------------------------------------------------------------- *)
(* main: target selection, pending snapshot prompt (main.mjs 860-896)      *)
(* ---------------------------------------------------------------------- *)
Start(r) ==
  /\ run[r].pc = "idle"
  /\ r = NextRun
  /\ scenario = "concurrent" \/ \A o \in Runs \ {r} : ~InFlight(o)
  /\ \E w \in WsChoices(r), b \in TargetBranches, sn \in ServerNames :
       run' = [run EXCEPT ![r] =
                    [@ EXCEPT !.pc = "main_snapshot", !.ws = w,
                              !.config.branch = b, !.config.serverName = sn]]
  /\ UNCHANGED <<Fs, clock, Env>>

\* variant: the default looks at the branch only
matchesSelection_BranchOnly(existingSnapshot, deploymentConfig) ==
  existingSnapshot.branch = deploymentConfig.branch

matchesSelection(existingSnapshot, deploymentConfig) ==
  /\ existingSnapshot.serverName = deploymentConfig.serverName
  /\ existingSnapshot.branch = deploymentConfig.branch

\* loadPendingTasksSnapshot and the confirm prompt; promptDefault and
\* resumePendingTasks are the prompt's `default` and the operator's answer
MainLoadSnapshot(r) ==
  /\ run[r].pc = "main_snapshot"
  /\ LET existingSnapshot == localSnap[run[r].ws] IN
       IF existingSnapshot = None
       THEN run' = [run EXCEPT ![r].pc = "reconcile"]
       ELSE \E resumePendingTasks \in BOOLEAN :
              run' = [run EXCEPT ![r] =
                        LET rec == [run[r] EXCEPT
                                      !.promptDefault =
                                         Some(matchesSelection(Val(existingSnapshot),
                                                               run[r].config)),
                                      !.resumePendingTasks = Some(resumePendingTasks)]
                        IN  IF resumePendingTasks
                            THEN [rec EXCEPT !.snapshot = existingSnapshot,
                                             !.pc = "reconcile"]
                            ELSE [rec EXCEPT !.pc = "main_discard"]]
  /\ UNCHANGED <<Fs, clock, Env>>

\* clearPendingTasksSnapshot(rootDir): unlink, ENOENT ignored, other errors thrown
MainDiscardSnapshot(r) ==
  /\ run[r].pc = "main_discard"
  /\ \E unlinkOk \in Oks :
       IF unlinkOk
       THEN /\ localSnap' = [localSnap EXCEPT ![run[r].ws] = None]
            /\ run' = [run EXCEPT ![r].pc = "reconcile"]
       ELSE /\ localSnap' = localSnap
            /\ run' = [run EXCEPT ![r] = ThrowRaw(@, "main")]
  /\ UNCHANGED <<remoteLock, remoteSnap, localLock, clock, Env>>

(* ---------------------------------------------------------------------- *)
(* runRemoteTasks: local pre-checks and connection (main.mjs 384-436)      *)
(* ---------------------------------------------------------------------- *)
\* cleanupOldLogs and ensureLocalRepositoryState(config.branch, rootDir); the
\* reconciler itself is the subject of SpecRepo.  From here on the locals of
\* main's prompt are out of reach: runRemoteTasks sees options.snapshot only.
EnsureLocalRepositoryState(r) ==
  /\ run[r].pc = "reconcile"
  /\ \E ok \in BOOLEAN :
       run' = [run EXCEPT ![r] =
                 LET rec == [@ EXCEPT !.promptDefault = None,
                                      !.resumePendingTasks = None] IN
                 IF ok THEN [rec EXCEPT !.pc = "lint"]
                 ELSE ThrowRaw(rec, "reconciler")]
  /\ UNCHANGED <<Fs, clock, Env>>

\* runLinting and commitLintingChanges, skipped with a pre-push hook
Lint(r) ==
  /\ run[r].pc = "lint"
  /\ \E hasHook \in BOOLEAN, ok \in BOOLEAN :
       /\ hasHook => ok
       /\ run' = [run EXCEPT ![r] =
                    IF ok THEN [@ EXCEPT !.pc = IF hasHook THEN "read_key" ELSE "tests"]
                    ELSE ThrowRaw(@, "lint")]
  /\ UNCHANGED <<Fs, clock, Env>>

\* `php artisan test --compact` when the local project is a Laravel project
LocalTests(r) ==
  /\ run[r].pc = "tests"
  /\ \E isLaravel \in BOOLEAN, ok \in BOOLEAN :
       /\ ~isLaravel => ok
       /\ run' = [run EXCEPT ![r] =
                    IF ok THEN [@ EXCEPT !.pc = "read_key"]
                    ELSE ThrowRaw(@, "tests")]
  /\ UNCHANGED <<Fs, clock, Env>>

\* resolveSshKeyPath and fs.readFile of the private key
ReadKey(r) ==
  /\ run[r].pc = "read_key"
  /\ \E ok \in BOOLEAN :
       run' = [run EXCEPT ![r] =
                 IF ok THEN [@ EXCEPT !.pc = "connect"]
                 ELSE ThrowRaw(@, "key")]
  /\ UNCHANGED <<Fs, clock, Env>>

\* variant: the deployment commands start right after the connection
Connect_SkipsLock(r) ==
  /\ run[r].pc = "connect"
  /\ \E ok \in BOOLEAN :
       run' = [run EXCEPT ![r] =
                 IF ok THEN [Log(Log(@, "connect"), "home") EXCEPT !.pc = "laravel_check"]
                 ELSE Throw(@)]
  /\ UNCHANGED <<Fs, clock, Env>>

Connect(r) ==
  /\ run[r].pc = "connect"
  /\ \E ok \in BOOLEAN :
       run' = [run EXCEPT ![r] =
                 IF ok THEN [Log(Log(@, "connect"), "home") EXCEPT !.pc = "lock_check"]
                 ELSE Throw(@)]
  /\ UNCHANGED <<Fs, clock, Env>>

(* ---------------------------------------------------------------------- *)
(* acquireRemoteLock (locks.mjs 106-159)                                   *)
(* ---------------------------------------------------------------------- *)
\* variant: the stdout of the check command is not looked at
LockCheck_IgnoresMarker(r) ==
  /\ run[r].pc = "lock_check"
  /\ run' = [run EXCEPT ![r] =
               [Log(@, "lock.check") EXCEPT !.checkResult = remoteLock,
                                            !.pc = "lock_write"]]
  /\ UNCHANGED <<Fs, clock, Env>>

\* the check command and the branch on its stdout
LockCheck(r) ==
  /\ run[r].pc = "lock_check"
  /\ run' = [run EXCEPT ![r] =
               [Log(@, "lock.check") EXCEPT
                  !.checkResult = remoteLock,
                  !.pc = IF remoteLock = None THEN "lock_write" ELSE "lock_read_local"]]
  /\ UNCHANGED <<Fs, clock, Env>>

\* variant: a missing local marker does not stop the acquisition
LockReadLocal_Proceeds(r) ==
  /\ run[r].pc = "lock_read_local"
  /\ run' = [run EXCEPT ![r] =
               IF localLock[run[r].ws] # None
               THEN [@ EXCEPT !.cmpFrom = "acquire", !.pc = "cmp_local"]
               ELSE [@ EXCEPT !.pc = "lock_write"]]
  /\ UNCHANGED <<Fs, clock, Env>>

\* readLocalLock(rootDir) at line 114
LockReadLocal(r) ==
  /\ run[r].pc = "lock_read_local"
  /\ run' = [run EXCEPT ![r] =
               IF localLock[run[r].ws] # None
               THEN [@ EXCEPT !.cmpFrom = "acquire", !.pc = "cmp_local"]
               ELSE Throw(@)]
  /\ UNCHANGED <<Fs, clock, Env>>

\* variant: a conflict leaves through the release of the markers
Return_ReleasesOnConflict(rec, removed) ==
  IF rec.cmpFrom = "acquire"
  THEN IF removed THEN [rec EXCEPT !.removed = TRUE, !.pc = "lock_write"]
       ELSE [rec EXCEPT !.error = "wrapped", !.pc = "release_remote"]
  ELSE [rec EXCEPT !.pc = "release_remote"]

\* after compareLocksAndPrompt returned `removed` to its caller
Return(rec, removed) ==
  IF rec.cmpFrom = "acquire"
  THEN IF removed THEN [rec EXCEPT !.removed = TRUE, !.pc = "lock_write"]
       ELSE Throw(rec)
  ELSE [rec EXCEPT !.pc = "release_remote"]

(* compareLocksAndPrompt (locks.mjs 70-104) *)
CmpReadLocal(r) ==
  /\ run[r].pc = "cmp_local"
  /\ run' = [run EXCEPT ![r] =
               [(IF @.cmpFrom = "catch" THEN Log(@, "home") ELSE @) EXCEPT
                  !.cmpLocal = localLock[run[r].ws], !.pc = "cmp_remote"]]
  /\ UNCHANGED <<Fs, clock, Env>>

SameLock(localLockValue, remoteLockValue) ==
  LockKey(localLockValue) = LockKey(remoteLockValue)

CmpReadRemote(r) ==
  /\ run[r].pc = "cmp_remote"
  /\ run' = [run EXCEPT ![r] =
               LET rec == [Log(@, "lock.read") EXCEPT !.cmpRemote = remoteLock] IN
               IF rec.cmpLocal = None \/ remoteLock = None
               THEN Return(rec, FALSE)
               ELSE IF SameLock(Val(rec.cmpLocal), Val(remoteLock))
                    THEN [rec EXCEPT !.pc = "cmp_prompt"]
                    ELSE Return(rec, FALSE)]
  /\ UNCHANGED <<Fs, clock, Env>>

\* the confirm prompt and, on yes, `rm -f` of the remote marker
CmpPrompt(r) ==
  /\ run[r].pc = "cmp_prompt"
  /\ \E shouldRemove \in BOOLEAN, code \in RmCodes :
       IF shouldRemove
       THEN /\ remoteLock' = IF code = 0 THEN None ELSE remoteLock
            /\ run' = [run EXCEPT ![r] =
                         [Log(Log(@, "prompt.stale"), "lock.rm") EXCEPT !.pc = "cmp_unlink"]]
       ELSE /\ remoteLock' = remoteLock
            /\ run' = [run EXCEPT ![r] = Return(Log(@, "prompt.stale"), FALSE)]
  /\ UNCHANGED <<remoteSnap, localLock, localSnap, clock, Env>>

\* releaseLocalLock(rootDir) inside compareLocksAndPrompt
CmpUnlinkLocal(r) ==
  /\ run[r].pc = "cmp_unlink"
  /\ \E unlinkOk \in Oks :
       /\ localLock' = IF unlinkOk THEN [localLock EXCEPT ![run[r].ws] = None]
                       ELSE localLock
       /\ run' = [run EXCEPT ![r] =
                    Return(IF unlinkOk THEN @ ELSE Log(@, "warn"), TRUE)]
  /\ UNCHANGED <<remoteLock, remoteSnap, localSnap, clock, Env>>

\* createLockPayload and the create command (locks.mjs 147-155)
LockWrite(r) ==
  /\ run[r].pc = "lock_write"
  /\ \E t \in ClockReads, createOk \in Oks :
       /\ clock' = t
       /\ IF createOk
          THEN /\ remoteLock' = Some(createLockPayload(r, run[r].ws, t))
               /\ run' = [run EXCEPT ![r] =
                            [Log(@, "lock.write") EXCEPT !.pc = "lock_local"]]
          ELSE /\ remoteLock' = remoteLock
               /\ run' = [run EXCEPT ![r] = Throw(Log(@, "lock.write"))]
  /\ UNCHANGED <<remoteSnap, localLock, localSnap, Env>>

\* acquireLocalLock(rootDir) (locks.mjs 16-26), then lockAcquired = true
LockLocal(r) ==
  /\ run[r].pc = "lock_local"
  /\ \E t \in ClockReads, writeOk \in Oks :
       /\ clock' = t
       /\ IF writeOk
          THEN /\ localLock' = [localLock EXCEPT ![run[r].ws] =
                                  Some(createLockPayload(r, run[r].ws, t))]
               /\ run' = [run EXCEPT ![r] =
                            [@ EXCEPT !.lockAcquired = TRUE, !.pc = "laravel_check"]]
          ELSE /\ localLock' = localLock
               /\ run' = [run EXCEPT ![r] = Throw(@)]
  /\ UNCHANGED <<remoteLock, remoteSnap, localSnap, Env>>

(* ---------------------------------------------------------------------- *)
(* runRemoteTasks: planning (main.mjs 453-515)                             *)
(* ---------------------------------------------------------------------- *)
\* variant: allowFailure is not looked at
ExecuteRemoteThrows_Always(code, allowFailure) == code # 0

\* executeRemote (remote-exec.mjs 29-98): throws on a non-zero exit code
\* unless allowFailure is set
ExecuteRemoteThrows(code, allowFailure) == code # 0 /\ ~allowFailure

ExitCodes == {0, 1}

HasPhpChanges(isLaravel, changedFiles) ==
  isLaravel /\ (\E i \in 1..Len(changedFiles) : IsPhpFile(changedFiles[i]))

\* variant: a resumed run derives the change set again
LaravelCheck_Rederives(r) ==
  /\ run[r].pc = "laravel_check"
  /\ \E isLaravel \in LaravelProbes :
       run' = [run EXCEPT ![r] =
                 LET rec == [Log(@, "laravel.check") EXCEPT !.isLaravel = isLaravel] IN
                 IF isLaravel THEN [rec EXCEPT !.pc = "fetch"]
                 ELSE [rec EXCEPT !.pc = "plan"]]
  /\ UNCHANGED <<Fs, clock, Env>>

LaravelCheck(r) ==
  /\ run[r].pc = "laravel_check"
  /\ \E isLaravel \in LaravelProbes :
       run' = [run EXCEPT ![r] =
                 LET rec == [Log(@, "laravel.check") EXCEPT !.isLaravel = isLaravel] IN
                 IF rec.snapshot # None
                 THEN [rec EXCEPT !.changedFiles = Val(rec.snapshot).changedFiles,
                                  !.pc = "plan"]
                 ELSE IF isLaravel THEN [rec EXCEPT !.pc = "fetch"]
                      ELSE [rec EXCEPT !.pc = "plan"]]
  /\ UNCHANGED <<Fs, clock, Env>>

Fetch(r) ==
  /\ run[r].pc = "fetch"
  /\ \E code \in ExitCodes :
       run' = [run EXCEPT ![r] =
                 IF ExecuteRemoteThrows(code, FALSE) THEN Throw(Log(@, "git.fetch"))
                 ELSE [Log(@, "git.fetch") EXCEPT !.pc = "diff"]]
  /\ UNCHANGED <<Fs, clock, Env>>

Diff(r) ==
  /\ run[r].pc = "diff"
  /\ \E code \in ExitCodes, stdout \in DiffResults :
       run' = [run EXCEPT ![r] =
                 IF ExecuteRemoteThrows(code, FALSE) THEN Throw(Log(@, "git.diff"))
                 ELSE [Log(@, "git.diff") EXCEPT !.changedFiles = ParseDiff(stdout),
                                                 !.pc = "plan"]]
  /\ UNCHANGED <<Fs, clock, Env>>

\* variant: every plan counts as useful
Plan_AlwaysUseful(r) ==
  /\ run[r].pc = "plan"
  /\ \E probe \in HorizonProbes \cup {FALSE} :
       LET hasPhpChanges == HasPhpChanges(run[r].isLaravel, run[r].changedFiles)
           horizonConfigured == hasPhpChanges /\ probe
           steps == planLaravelDeploymentTasks(run[r].config.branch, run[r].isLaravel,
                                               run[r].changedFiles, horizonConfigured)
       IN  /\ hasPhpChanges \/ ~probe
           /\ run' = [run EXCEPT ![r] =
                        [(IF hasPhpChanges THEN Log(@, "horizon.check") ELSE @) EXCEPT
                           !.horizonConfigured = horizonConfigured,
                           !.steps = steps,
                           !.pc = "save_snapshot"]]
  /\ UNCHANGED <<Fs, clock, Env>>

\* the horizon probe (only with php changes) and planLaravelDeploymentTasks
Plan(r) ==
  /\ run[r].pc = "plan"
  /\ \E probe \in HorizonProbes \cup {FALSE} :
       LET hasPhpChanges == HasPhpChanges(run[r].isLaravel, run[r].changedFiles)
           horizonConfigured == hasPhpChanges /\ probe
           steps == planLaravelDeploymentTasks(run[r].config.branch, run[r].isLaravel,
                                               run[r].changedFiles, horizonConfigured)
           usefulSteps == Len(steps) > 1
       IN  /\ hasPhpChanges \/ ~probe
           /\ run' = [run EXCEPT ![r] =
                        [(IF hasPhpChanges THEN Log(@, "horizon.check") ELSE @) EXCEPT
                           !.horizonConfigured = horizonConfigured,
                           !.steps = steps,
                           !.pc = IF usefulSteps THEN "save_snapshot" ELSE "exec"]]
  /\ UNCHANGED <<Fs, clock, Env>>

(* ---------------------------------------------------------------------- *)
(* runRemoteTasks: snapshot persistence (main.mjs 517-540)                 *)
(* ---------------------------------------------------------------------- *)
NewSnapshot(rec, t) ==
  [serverName |-> rec.config.serverName, branch |-> rec.config.branch,
   projectPath |-> rec.config.projectPath, sshUser |-> rec.config.sshUser,
   createdAt |-> ToISOString(t), changedFiles |-> rec.changedFiles,
   taskLabels |-> Labels(rec.steps)]

\* pendingSnapshot = snapshot ?? {...}; savePendingTasksSnapshot(rootDir, ...)
SaveSnapshot(r) ==
  /\ run[r].pc = "save_snapshot"
  /\ \E t \in (IF run[r].snapshot = None THEN ClockReads ELSE {clock}),
        writeOk \in Oks :
       LET pendingSnapshot ==
             IF run[r].snapshot # None THEN run[r].snapshot
             ELSE Some(NewSnapshot(run[r], t))
           rec == [run[r] EXCEPT !.pendingSnapshot = pendingSnapshot]
       IN  /\ clock' = t
           /\ IF writeOk
              THEN /\ localSnap' = [localSnap EXCEPT ![run[r].ws] = pendingSnapshot]
                   /\ run' = [run EXCEPT ![r] =
                                [Log(rec, "snapshot.save") EXCEPT !.pc = "record_snapshot"]]
              ELSE /\ localSnap' = localSnap
                   /\ run' = [run EXCEPT ![r] = Throw(rec)]
  /\ UNCHANGED <<remoteLock, remoteSnap, localLock, Env>>

\* executeRemote('Record pending deployment tasks', ...)
RecordSnapshot(r) ==
  /\ run[r].pc = "record_snapshot"
  /\ \E code \in ExitCodes :
       IF ExecuteRemoteThrows(code, FALSE)
       THEN /\ remoteSnap' = remoteSnap
            /\ run' = [run EXCEPT ![r] = Throw(Log(@, "snapshot.record"))]
       ELSE /\ remoteSnap' = run[r].pendingSnapshot
            /\ run' = [run EXCEPT ![r] =
                         [Log(@, "snapshot.record") EXCEPT !.pc = "exec"]]
  /\ UNCHANGED <<remoteLock, localLock, localSnap, clock, Env>>

(* ---------------------------------------------------------------------- *)
(* runRemoteTasks: execution and snapshot clearing (main.mjs 553-575)      *)
(* ---------------------------------------------------------------------- *)
\* variant: the inner finally clears the snapshot whether or not the loop
\* completed
ExecStep_ClearsOnFailure(r) ==
  /\ run[r].pc = "exec"
  /\ LET i == Len(run[r].executed) + 1
         step == run[r].steps[i]
     IN  \E code \in ExitCodes :
           run' = [run EXCEPT ![r] =
                     LET rec == [Log(@, "step") EXCEPT !.executed = Append(@, step.label)] IN
                     IF ExecuteRemoteThrows(code, FALSE)
                     THEN IF Len(rec.steps) > 1
                          THEN [rec EXCEPT !.error = "wrapped", !.pc = "clear_remote"]
                          ELSE Throw(rec)
                     ELSE IF i < Len(rec.steps) THEN rec
                     ELSE [rec EXCEPT !.completed = TRUE,
                                      !.pc = IF Len(rec.steps) > 1 THEN "clear_remote"
                                             ELSE "release_remote"]]
  /\ UNCHANGED <<Fs, clock, Env>>

\* variant: a failed step is noted and the loop goes on
ExecStep_GoesOn(r) ==
  /\ run[r].pc = "exec"
  /\ LET i == Len(run[r].executed) + 1
         step == run[r].steps[i]
     IN  \E code \in ExitCodes :
           run' = [run EXCEPT ![r] =
                     LET rec == [Log(@, "step") EXCEPT !.executed = Append(@, step.label)] IN
                     IF ExecuteRemoteThrows(code, FALSE) /\ i = Len(rec.steps)
                     THEN Throw(rec)
                     ELSE IF i < Len(rec.steps)
                          THEN [rec EXCEPT !.error =
                                   IF ExecuteRemoteThrows(code, FALSE) THEN "wrapped" ELSE @]
                     ELSE [rec EXCEPT !.completed = TRUE,
                                      !.pc = IF Len(rec.steps) > 1 THEN "clear_remote"
                                             ELSE "release_remote"]]
  /\ UNCHANGED <<Fs, clock, Env>>

\* one iteration of `for (const step of steps)`; after the last one,
\* completed = true and the inner finally decides about clearing
ExecStep(r) ==
  /\ run[r].pc = "exec"
  /\ LET i == Len(run[r].executed) + 1
         step == run[r].steps[i]
     IN  \E code \in ExitCodes :
           run' = [run EXCEPT ![r] =
                     LET rec == [Log(@, "step") EXCEPT !.executed = Append(@, step.label)] IN
                     IF ExecuteRemoteThrows(code, FALSE) THEN Throw(rec)
                     ELSE IF i < Len(rec.steps) THEN rec
                     ELSE [rec EXCEPT !.completed = TRUE,
                                      !.pc = IF Len(rec.steps) > 1 THEN "clear_remote"
                                             ELSE "release_remote"]]
  /\ UNCHANGED <<Fs, clock, Env>>

\* executeRemote('Clear pending deployment snapshot', `rm -f ...`, allowFailure)
ClearSnapshotRemote(r) ==
  /\ run[r].pc = "clear_remote"
  /\ \E code \in ExitCodes :
       /\ ~ExecuteRemoteThrows(code, TRUE)
       /\ remoteSnap' = IF code = 0 THEN None ELSE remoteSnap
  /\ run' = [run EXCEPT ![r] = [Log(@, "snapshot.rm") EXCEPT !.pc = "clear_local"]]
  /\ UNCHANGED <<remoteLock, localLock, localSnap, clock, Env>>

\* clearPendingTasksSnapshot(rootDir) (snapshots.mjs 26-34)
ClearSnapshotLocal(r) ==
  /\ run[r].pc = "clear_local"
  /\ \E unlinkOk \in Oks :
       IF unlinkOk
       THEN /\ localSnap' = [localSnap EXCEPT ![run[r].ws] = None]
            /\ run' = [run EXCEPT ![r] =
                         [Log(@, "snapshot.unlink") EXCEPT !.pc = "release_remote"]]
       ELSE /\ localSnap' = localSnap
            /\ run' = [run EXCEPT ![r] = Throw(@)]
  /\ UNCHANGED <<remoteLock, remoteSnap, localLock, clock, Env>>

(* ---------------------------------------------------------------------- *)
(* runRemoteTasks: the outer finally (main.mjs 595-611)                    *)
(* ---------------------------------------------------------------------- *)
\* releaseRemoteLock (locks.mjs 161-170): `rm -f`; exit codes other than 0 and
\* 1 are logged as a warning
ReleaseRemote(r) ==
  /\ run[r].pc = "release_remote"
  /\ \E code \in RmCodes :
       /\ remoteLock' = IF code = 0 THEN None ELSE remoteLock
       /\ run' = [run EXCEPT ![r] =
                    [LogAll(@, <<"home", "lock.release">>
                                 \o (IF code # 0 THEN <<"lock.release.failed">> ELSE <<>>)
                                 \o (IF code # 0 /\ code # 1 THEN <<"warn">> ELSE <<>>))
                       EXCEPT !.pc = "release_local"]]
  /\ UNCHANGED <<remoteSnap, localLock, localSnap, clock, Env>>

\* releaseLocalLock (locks.mjs 28-37): unlink; an error other than ENOENT is
\* logged as a warning
ReleaseLocal(r) ==
  /\ run[r].pc = "release_local"
  /\ \E unlinkOk \in Oks :
       /\ localLock' = IF unlinkOk THEN [localLock EXCEPT ![run[r].ws] = None]
                       ELSE localLock
       /\ run' = [run EXCEPT ![r] =
                    [LogAll(@, <<"lock.unlink">>
                                 \o (IF unlinkOk THEN <<>> ELSE <<"lock.unlink.failed", "warn">>))
                       EXCEPT !.pc = "dispose"]]
  /\ UNCHANGED <<remoteLock, remoteSnap, localSnap, clock, Env>>

\* closeLogFile(), ssh.dispose(), and the return or rethrow of runRemoteTasks
Dispose(r) ==
  /\ run[r].pc = "dispose"
  /\ run' = [run EXCEPT ![r] =
               [@ EXCEPT !.outcome = IF run[r].error = "none" THEN "returned" ELSE "thrown",
                         !.pc = "exit"]]
  /\ UNCHANGED <<Fs, clock, Env>>

\* the process ends; its locals are gone and the next invocation starts afresh
Exit(r) ==
  /\ run[r].pc = "exit"
  /\ run' = [run EXCEPT ![r] = GoneRun]
  /\ UNCHANGED <<Fs, clock, Env>>

\* the process is killed from outside (no cleanup code runs)
Kill(r) ==
  /\ InFlight(r)
  /\ run[r].pc # "exit"
  /\ run' = [run EXCEPT ![r] = GoneRun]
  /\ UNCHANGED <<Fs, clock, Env>>

Next ==
  \E r \in Runs :
    \/ Start(r)
    \/ MainLoadSnapshot(r)
    \/ MainDiscardSnapshot(r)
    \/ EnsureLocalRepositoryState(r)
    \/ Lint(r)
    \/ LocalTests(r)
    \/ ReadKey(r)
    \/ Connect(r)
    \/ LockCheck(r)
    \/ LockReadLocal(r)
    \/ CmpReadLocal(r)
    \/ CmpReadRemote(r)
    \/ CmpPrompt(r)
    \/ CmpUnlinkLocal(r)
    \/ LockWrite(r)
    \/ LockLocal(r)
    \/ LaravelCheck(r)
    \/ Fetch(r)
    \/ Diff(r)
    \/ Plan(r)
    \/ SaveSnapshot(r)
    \/ RecordSnapshot(r)
    \/ ExecStep(r)
    \/ ClearSnapshotRemote(r)
    \/ ClearSnapshotLocal(r)
    \/ ReleaseRemote(r)
    \/ ReleaseLocal(r)
    \/ Dispose(r)
    \/ Exit(r)
    \/ Kill(r)

Spec == Init /\ [][Next]_vars

SpecConc == InitConc /\ [][Next]_vars

SpecFaults == InitFaults /\ [][Next]_vars

(* ---------------------------------------------------------------------- *)
(* Local repository reconciler (deploy/local-repo.mjs)                     *)
(*                                                                         *)
(* The working tree is the list of lines that `git status --porcelain`     *)
(* prints for it, a line being the tokens X, Y, " " and the path.  ahead   *)
(* and behind count, per local branch, the commits that the branch and its *)
(* remote-tracking ref do not share; refExists tells whether the           *)
(* remote-tracking ref of the target branch is there.                      *)
(* ---------------------------------------------------------------------- *)
MaxCommits == 1
MaxLines == 2

\* XY codes: staged, unstaged, untracked, staged and modified again
StatusCodes == {<<"M", " ">>, <<" ", "M">>, <<"?", "?">>, <<"M", "M">>}

PathOf(i) == <<"file", Digit(i)>>

Trees ==
  UNION {{[i \in 1..n |-> codes[i] \o <<" ">> \o PathOf(i)] :
            codes \in [1..n -> StatusCodes]} : n \in 0..MaxLines}

\* the index has an entry for the line's path
IsStaged(line) == line[1] # " " /\ line[1] # "?"

LeftByCommit(line) == ~(IsStaged(line) /\ line[2] = " ")

\* the working tree after `git commit` took what the index held
AfterCommit(tree) ==
  LET left == SelectSeq(tree, LeftByCommit)
  IN  [i \in 1..Len(left) |->
         IF IsStaged(left[i]) THEN <<" ">> \o Tail(left[i]) ELSE left[i]]

RECURSIVE TrimStart(_)
TrimStart(line) ==
  IF line # <<>> /\ line[1] = " " THEN TrimStart(Tail(line)) ELSE line

\* String.prototype.trim on the text whose lines are given: the white space
\* in front of the first line goes (the last line ends with its path)
Trim(lines) ==
  IF lines = <<>> THEN <<>> ELSE <<TrimStart(lines[1])>> \o Tail(lines)

\* getGitStatus: `git status --porcelain`, trimmed
getGitStatus(tree) == Trim(tree)

hasStagedChanges(statusOutput) ==
  \E i \in 1..Len(statusOutput) :
    /\ TrimStart(statusOutput[i]) # <<>>
    /\ statusOutput[i][1] # " "
    /\ statusOutput[i][1] # "?"

IsDigit(token) == \E d \in 0..9 : token = Digit(d)

DigitValue(token) == CHOOSE d \in 0..9 : token = Digit(d)

RECURSIVE ParseDigits(_, _)
ParseDigits(tokens, acc) ==
  IF tokens # <<>> /\ IsDigit(tokens[1])
  THEN ParseDigits(Tail(tokens), 10 * acc + DigitValue(tokens[1]))
  ELSE acc

\* parseInt(text, 10) of a text that starts with its digits
ParseInt(tokens) == ParseDigits(tokens, 0)

\* branchLine.match(/ahead (\d+)/) and the like: the number behind the first
\* occurrence of the key, 0 without a match
MatchCount(line, key) ==
  IF \E i \in 1..Len(line) : line[i] = key
  THEN LET i == CHOOSE k \in 1..Len(line) :
                  line[k] = key /\ \A j \in 1..(k - 1) : line[j] # key
       IN  ParseInt(SubSeq(line, i + 1, Len(line)))
  ELSE 0

\* `origin/<branch>`, or the same branch of another remote
UpstreamRef(upstream, branch) == <<upstream, "/", branch>>

\* first line of `git status --short --branch`
BranchLine(rec) ==
  LET a == rec.ahead[rec.branch]
      b == rec.behind[rec.branch]
      gone == rec.branch = rec.targetBranch /\ ~rec.refExists
  IN  <<"## ", rec.branch>>
        \o (IF rec.upstream = "none" THEN <<>>
            ELSE <<"...">> \o UpstreamRef(rec.upstream, rec.branch)
                   \o (IF gone THEN <<" [", "gone", "]">>
                       ELSE IF a = 0 /\ b = 0 THEN <<>>
                       ELSE <<" [">>
                              \o (IF a > 0 THEN <<"ahead ">> \o Digits(a) ELSE <<>>)
                              \o (IF a > 0 /\ b > 0 THEN <<", ">> ELSE <<>>)
                              \o (IF b > 0 THEN <<"behind ">> \o Digits(b) ELSE <<>>)
                              \o <<"]">>))

\* stdout of `git rev-list --count`
RevListCount(n) == Digits(n) \o <<"\n">>

RThrow(rec, cause) == [rec EXCEPT !.pc = "thrown", !.cause = cause]

RLog(rec, events) == [rec EXCEPT !.trace = @ \o events]

Rest == <<remoteLock, remoteSnap, localLock, localSnap, clock, scenario, run, planner,
         exec>>

Counts == [Branches -> 0..MaxCommits]

\* the repositories the reconciler can meet; without an upstream there is
\* nothing to be ahead of, without a remote-tracking ref nothing to be behind
InitRepo ==
  /\ InitFiles
  /\ localSnap = NoSnapshots
  /\ planner = OffPlanner
  /\ exec = OffExec
  /\ scenario = "repository"
  /\ \E t \in Branches \cup {""}, b \in Branches \cup {""}, tr \in Trees,
        u \in {"none", "origin", "fork"}, e \in BOOLEAN,
        a \in Counts, bh \in Counts :
       /\ (t = "" \/ b = "") =>
            (tr = <<>> /\ u = "origin" /\ e /\ a = [x \in Branches |-> 0]
               /\ bh = [x \in Branches |-> 0])
       /\ u = "none" =>
            (~e /\ a = [x \in Branches |-> 0] /\ bh = [x \in Branches |-> 0])
       /\ \A x \in Branches :
            /\ (x # t /\ x # b) => (a[x] = 0 /\ bh[x] = 0)
            /\ (x = t /\ ~e) => bh[x] = 0
       /\ repo = [OffRepo EXCEPT !.pc = "start", !.targetBranch = t, !.branch = b,
                                 !.tree = tr, !.upstream = u, !.refExists = e,
                                 !.ahead = a, !.behind = bh,
                                 !.start = [branch |-> b, tree |-> tr]]

(* ensureLocalRepositoryState (local-repo.mjs 107-214) *)
\* the guards on targetBranch and getCurrentBranch
ReconcilerReadBranch ==
  /\ repo.pc = "start"
  /\ repo' = IF repo.targetBranch = "" THEN RThrow(repo, "no-target")
             ELSE LET currentBranch == repo.branch IN
                  IF currentBranch = ""
                  THEN RThrow(repo, "no-branch")
                  ELSE [repo EXCEPT !.currentBranch = currentBranch, !.pc = "status"]
  /\ UNCHANGED Rest

\* initialStatus and hasPendingChanges
ReconcilerReadStatus ==
  /\ repo.pc = "status"
  /\ repo' = LET initialStatus == getGitStatus(repo.tree) IN
             [RLog(repo, <<"git.status">>) EXCEPT
                !.initialStatus = initialStatus,
                !.hasPendingChanges = Len(initialStatus) > 0,
                !.pc = "report"]
  /\ UNCHANGED Rest

\* `git status --short --branch` and the ahead / behind counts of its first line
ReconcilerReadReport ==
  /\ repo.pc = "report"
  /\ repo' = LET lines == <<BranchLine(repo)>> \o repo.tree
                 branchLine == lines[1]
                 aheadCount == MatchCount(branchLine, "ahead ")
                 behindCount == MatchCount(branchLine, "behind ")
             IN  [RLog(repo, IF aheadCount > 0 THEN <<"warn.ahead">> ELSE <<>>) EXCEPT
                    !.aheadCount = aheadCount,
                    !.behindCount = behindCount,
                    !.pc = IF behindCount > 0 THEN "pull" ELSE "switch"]
  /\ UNCHANGED Rest

\* `git pull --ff-only`: it can succeed only when the branch has no commit of
\* its own
ReconcilerPull ==
  /\ repo.pc = "pull"
  /\ \E ok \in BOOLEAN :
       /\ ok => repo.ahead[repo.branch] = 0
       /\ repo' = IF ok
                  THEN [RLog(repo, <<"git.pull">>) EXCEPT
                          !.behind[repo.branch] = 0, !.pc = "switch"]
                  ELSE RThrow(RLog(repo, <<"git.pull">>), "fast-forward")
  /\ UNCHANGED Rest

\* the files that a checkout of another branch can turn up as untracked
Revealed == {<<>>, << <<"?", "?", " ", "file", "9">> >>}

\* variant: pending changes do not stop the checkout
ReconcilerSwitch_CarriesChanges ==
  /\ repo.pc = "switch"
  /\ IF repo.currentBranch # repo.targetBranch
     THEN \E ok \in BOOLEAN, untracked \in Revealed :
            /\ ~ok => untracked = <<>>
            /\ repo' = IF ok
                       THEN [RLog(repo, <<"git.checkout">>) EXCEPT
                               !.branch = repo.targetBranch,
                               !.tree = @ \o untracked,
                               !.pc = "recheck"]
                       ELSE RThrow(RLog(repo, <<"git.checkout">>), "checkout")
     ELSE repo' = [repo EXCEPT !.pc = "recheck"]
  /\ UNCHANGED Rest

\* the refusal to switch with pending changes, or `git checkout <target>`
ReconcilerSwitch ==
  /\ repo.pc = "switch"
  /\ IF repo.currentBranch # repo.targetBranch
     THEN IF repo.hasPendingChanges
          THEN repo' = RThrow(repo, "uncommitted-changes")
          ELSE \E ok \in BOOLEAN, untracked \in Revealed :
                 /\ ~ok => untracked = <<>>
                 /\ repo' = IF ok
                            THEN [RLog(repo, <<"git.checkout">>) EXCEPT
                                    !.branch = repo.targetBranch,
                                    !.tree = @ \o untracked,
                                    !.pc = "recheck"]
                            ELSE RThrow(RLog(repo, <<"git.checkout">>), "checkout")
     ELSE repo' = [repo EXCEPT !.pc = "recheck"]
  /\ UNCHANGED Rest

\* statusAfterCheckout and the two returns without a commit
ReconcilerRecheck ==
  /\ repo.pc = "recheck"
  /\ repo' = LET same == repo.currentBranch = repo.targetBranch
                 statusAfterCheckout ==
                   IF same THEN repo.initialStatus ELSE getGitStatus(repo.tree)
             IN  [RLog(repo, IF same THEN <<>> ELSE <<"git.status">>) EXCEPT
                    !.statusAfterCheckout = statusAfterCheckout,
                    !.pc = IF Len(statusAfterCheckout) = 0 THEN "ecp_upstream"
                           ELSE IF ~hasStagedChanges(statusAfterCheckout)
                                THEN "ecp_upstream"
                                ELSE "prompt"]
  /\ UNCHANGED Rest

\* the warning and the prompt for a commit message
ReconcilerPrompt ==
  /\ repo.pc = "prompt"
  /\ repo' = [RLog(repo, <<"warn.staged", "prompt">>) EXCEPT !.pc = "commit"]
  /\ UNCHANGED Rest

\* `git commit -m <message>`: git refuses when the index holds nothing
ReconcilerCommit ==
  /\ repo.pc = "commit"
  /\ \E ok \in BOOLEAN :
       /\ ok => \E i \in 1..Len(repo.tree) : IsStaged(repo.tree[i])
       /\ repo' = IF ok
                  THEN [RLog(repo, <<"git.commit">>) EXCEPT
                          !.tree = AfterCommit(repo.tree),
                          !.ahead[repo.targetBranch] = @ + 1,
                          !.pc = "push_origin"]
                  ELSE RThrow(RLog(repo, <<"git.commit">>), "commit")
  /\ UNCHANGED Rest

\* `git push origin <target>`: it brings the upstream up to date only when
\* the upstream is origin/<target>, and origin refuses it when the branch is
\* behind
ReconcilerPushOrigin ==
  /\ repo.pc = "push_origin"
  /\ \E ok \in BOOLEAN :
       /\ (ok /\ repo.upstream = "origin") => repo.behind[repo.targetBranch] = 0
       /\ repo' = IF ~ok THEN RThrow(RLog(repo, <<"git.push.origin">>), "push")
                  ELSE IF repo.upstream = "origin"
                  THEN [RLog(repo, <<"git.push.origin">>) EXCEPT
                          !.ahead[repo.targetBranch] = 0,
                          !.refExists = TRUE,
                          !.pc = "final_status"]
                  ELSE [RLog(repo, <<"git.push.origin">>) EXCEPT !.pc = "final_status"]
  /\ UNCHANGED Rest

\* variant: the status after the commit is read and not looked at
ReconcilerFinalStatus_NotVerified ==
  /\ repo.pc = "final_status"
  /\ repo' = LET finalStatus == getGitStatus(repo.tree) IN
             [RLog(repo, <<"git.status">>) EXCEPT
                !.finalStatus = Some(finalStatus), !.pc = "ecp_upstream"]
  /\ UNCHANGED Rest

\* finalStatus and the throw on a tree that still reports something
ReconcilerFinalStatus ==
  /\ repo.pc = "final_status"
  /\ repo' = LET finalStatus == getGitStatus(repo.tree)
                 rec == [RLog(repo, <<"git.status">>) EXCEPT
                           !.finalStatus = Some(finalStatus)]
             IN  IF Len(finalStatus) > 0 THEN RThrow(rec, "still-dirty")
                 ELSE [rec EXCEPT !.pc = "ecp_upstream"]
  /\ UNCHANGED Rest

(* ensureCommittedChangesPushed (local-repo.mjs 35-105) *)
\* getUpstreamRef and the split into remote name and branch
EcpUpstream ==
  /\ repo.pc = "ecp_upstream"
  /\ repo' = LET upstreamRef ==
                   IF repo.upstream = "none" THEN None
                   ELSE Some(UpstreamRef(repo.upstream, repo.targetBranch))
             IN  IF upstreamRef = None
                 THEN [RLog(repo, <<"warn.no-upstream">>) EXCEPT !.pc = "returned"]
                 ELSE LET remoteName == Val(upstreamRef)[1]
                          upstreamBranch == SubSeq(Val(upstreamRef), 3, Len(Val(upstreamRef)))
                      IN  IF remoteName = "" \/ upstreamBranch = <<>>
                          THEN [RLog(repo, <<"warn.no-remote">>) EXCEPT
                                  !.upstreamRef = upstreamRef, !.pc = "returned"]
                          ELSE [repo EXCEPT !.upstreamRef = upstreamRef,
                                            !.pc = "ecp_fetch"]
  /\ UNCHANGED Rest

\* `git fetch <remote>`: a failure is a warning; a fetch that works can find
\* new commits on the remote branch
EcpFetch ==
  /\ repo.pc = "ecp_fetch"
  /\ \E ok \in BOOLEAN, found \in 0..MaxCommits :
       /\ found >= repo.behind[repo.targetBranch]
       /\ (~ok \/ ~repo.refExists) => found = repo.behind[repo.targetBranch]
       /\ repo' = IF ok
                  THEN [RLog(repo, <<"git.fetch">>) EXCEPT
                          !.behind[repo.targetBranch] = found, !.pc = "ecp_counts"]
                  ELSE [RLog(repo, <<"git.fetch", "warn.fetch">>) EXCEPT
                          !.pc = "ecp_counts"]
  /\ UNCHANGED Rest

\* variant: the behind count is not looked at
EcpCounts_BehindIgnored ==
  /\ repo.pc = "ecp_counts"
  /\ repo' = LET remoteExists == repo.refExists
                 aheadCount == IF remoteExists
                               THEN ParseInt(RevListCount(repo.ahead[repo.targetBranch]))
                               ELSE 1
             IN  IF aheadCount <= 0 THEN [repo EXCEPT !.pc = "returned"]
                 ELSE [RLog(repo, <<"push.needed">>) EXCEPT !.pc = "ecp_push"]
  /\ UNCHANGED Rest

\* show-ref, the two rev-list counts, the throw when behind and the return
\* when nothing is ahead
EcpCounts ==
  /\ repo.pc = "ecp_counts"
  /\ repo' = LET remoteExists == repo.refExists
                 aheadCount == IF remoteExists
                               THEN ParseInt(RevListCount(repo.ahead[repo.targetBranch]))
                               ELSE 1
                 behindCount == IF remoteExists
                                THEN ParseInt(RevListCount(repo.behind[repo.targetBranch]))
                                ELSE 0
             IN  IF behindCount > 0 THEN RThrow(repo, "behind")
                 ELSE IF aheadCount <= 0 THEN [repo EXCEPT !.pc = "returned"]
                 ELSE [RLog(repo, <<"push.needed">>) EXCEPT !.pc = "ecp_push"]
  /\ UNCHANGED Rest

\* `git push <remote> <target>:<upstreamBranch>`
EcpPush ==
  /\ repo.pc = "ecp_push"
  /\ \E ok \in BOOLEAN :
       repo' = IF ok
               THEN [RLog(repo, <<"git.push.upstream">>) EXCEPT
                       !.ahead[repo.targetBranch] = 0,
                       !.refExists = TRUE,
                       !.pc = "returned"]
               ELSE RThrow(RLog(repo, <<"git.push.upstream">>), "push")
  /\ UNCHANGED Rest

NextRepo ==
  \/ ReconcilerReadBranch
  \/ ReconcilerReadStatus
  \/ ReconcilerReadReport
  \/ ReconcilerPull
  \/ ReconcilerSwitch
  \/ ReconcilerRecheck
  \/ ReconcilerPrompt
  \/ ReconcilerCommit
  \/ ReconcilerPushOrigin
  \/ ReconcilerFinalStatus
  \/ EcpUpstream
  \/ EcpFetch
  \/ EcpCounts
  \/ EcpPush

SpecRepo == InitRepo /\ [][NextRepo]_vars

(* ---------------------------------------------------------------------- *)
(* The local pre-checks of runRemoteTasks on the repository the reconciler *)
(* left (main.mjs 387-432, deploy/preflight.mjs)                           *)
(* ---------------------------------------------------------------------- *)
\* hasPrePushHook: with a hook, linting and tests are skipped
PreflightHook ==
  /\ repo.pc = "returned"
  /\ \E hasHook \in BOOLEAN :
       repo' = [repo EXCEPT !.pc = IF hasHook THEN "key" ELSE "lint"]
  /\ UNCHANGED Rest

\* what the lint command can leave behind: nothing, a fixed file, or a fixed
\* file that the lint script staged itself
LintFixes ==
  {<<>>, << <<" ", "M", " ", "file", "8">> >>, << <<"M", " ", " ", "file", "8">> >>}

\* runLinting (preflight.mjs 48-76) and hasUncommittedChanges
PreflightLint ==
  /\ repo.pc = "lint"
  /\ \E lintRan \in BOOLEAN, ok \in BOOLEAN, fixes \in LintFixes :
       /\ ~lintRan => (ok /\ fixes = <<>>)
       /\ ~ok => fixes = <<>>
       /\ repo' = IF ~ok THEN RThrow(RLog(repo, <<"lint">>), "lint")
                  ELSE IF ~lintRan THEN [repo EXCEPT !.pc = "tests"]
                  ELSE LET tree == repo.tree \o fixes
                           hasChanges == Len(getGitStatus(tree)) > 0
                       IN  [RLog(repo, <<"lint", "git.status">>) EXCEPT
                              !.tree = tree,
                              !.pc = IF hasChanges THEN "lint_stage" ELSE "tests"]
  /\ UNCHANGED Rest

\* `git add -u`: the index takes every change of a tracked file
AddUpdated(tree) ==
  [i \in 1..Len(tree) |->
     IF tree[i][1] # "?" /\ tree[i][2] # " "
     THEN <<tree[i][2], " ">> \o SubSeq(tree[i], 3, Len(tree[i]))
     ELSE tree[i]]

\* commitLintingChanges (preflight.mjs 91-100): the status, `git add -u` when
\* it shows nothing staged, and the return without a commit
PreflightStage ==
  /\ repo.pc = "lint_stage"
  /\ repo' = LET status == getGitStatus(repo.tree) IN
             IF hasStagedChanges(status)
             THEN [RLog(repo, <<"git.status">>) EXCEPT !.pc = "lint_commit"]
             ELSE LET tree == AddUpdated(repo.tree)
                      newStatus == getGitStatus(tree)
                  IN  [RLog(repo, <<"git.status", "git.add", "git.status">>) EXCEPT
                         !.tree = tree,
                         !.pc = IF hasStagedChanges(newStatus) THEN "lint_commit"
                                ELSE "tests"]
  /\ UNCHANGED Rest

\* commitLintingChanges (preflight.mjs 102-105): `git commit -m 'style: apply
\* linting fixes'`, which git refuses when the index holds nothing; no push
PreflightCommit ==
  /\ repo.pc = "lint_commit"
  /\ \E ok \in BOOLEAN :
       /\ ok => \E i \in 1..Len(repo.tree) : IsStaged(repo.tree[i])
       /\ repo' = IF ok
                  THEN [RLog(repo, <<"git.commit.lint">>) EXCEPT
                          !.tree = AfterCommit(repo.tree),
                          !.ahead[repo.targetBranch] = @ + 1,
                          !.pc = "tests"]
                  ELSE RThrow(RLog(repo, <<"git.commit.lint">>), "commit")
  /\ UNCHANGED Rest

\* `php artisan test --compact` for a local Laravel project
PreflightTests ==
  /\ repo.pc = "tests"
  /\ \E isLaravel \in BOOLEAN, ok \in BOOLEAN :
       /\ ~isLaravel => ok
       /\ repo' = IF ok
                  THEN [RLog(repo, IF isLaravel THEN <<"tests">> ELSE <<>>) EXCEPT
                          !.pc = "key"]
                  ELSE RThrow(RLog(repo, <<"tests">>), "tests")
  /\ UNCHANGED Rest

\* resolveSshKeyPath and the read of the private key; then ssh.connect
PreflightKey ==
  /\ repo.pc = "key"
  /\ \E ok \in BOOLEAN :
       repo' = IF ok THEN [repo EXCEPT !.pc = "connect"] ELSE RThrow(repo, "key")
  /\ UNCHANGED Rest

NextPreflight ==
  \/ NextRepo
  \/ PreflightHook
  \/ PreflightLint
  \/ PreflightStage
  \/ PreflightCommit
  \/ PreflightTests
  \/ PreflightKey

SpecPreflight == InitRepo /\ [][NextPreflight]_vars

(* ---------------------------------------------------------------------- *)
(* The task planner on its own (utils/task-planner.mjs)                    *)
(* ---------------------------------------------------------------------- *)
MaxFiles == 3

FReadme == <<"README", ".md">>
FNestedLock == <<"packages", "/", "billing", "/", "composer", ".lock">>
FPackageLock == <<"package-lock", ".json">>
FMigrationNote == <<"database", "/", "migrations", "/", "notes", ".md">>
FStyle == <<"resources", "/", "css", "/", "app", ".scss">>
FNestedPackage == <<"resources", "/", "admin", "/", "package", ".json">>

PlannerFiles ==
  {FPhp, FComposer, FMigration, FAppJs, FReadme, FNestedLock, FPackageLock,
   FMigrationNote, FStyle, FNestedPackage}

ChangedFileLists == UNION {[1..n -> PlannerFiles] : n \in 0..MaxFiles}

InitPlanner ==
  /\ InitFiles
  /\ localSnap = NoSnapshots
  /\ repo = OffRepo
  /\ exec = OffExec
  /\ scenario = "planner"
  /\ \E branch \in Branches, isLaravel \in BOOLEAN, changedFiles \in ChangedFileLists,
        horizonConfigured \in BOOLEAN :
       planner = [OffPlanner EXCEPT !.pc = "call", !.branch = branch,
                                    !.isLaravel = isLaravel,
                                    !.changedFiles = changedFiles,
                                    !.horizonConfigured = horizonConfigured]

\* the call and its return value
CallPlanner ==
  /\ planner.pc = "call"
  /\ planner' = [planner EXCEPT
                   !.steps = planLaravelDeploymentTasks(planner.branch, planner.isLaravel,
                               planner.changedFiles, planner.horizonConfigured),
                   !.pc = "returned"]
  /\ UNCHANGED <<Fs, clock, scenario, run, repo, exec>>

NextPlanner == CallPlanner

SpecPlanner == InitPlanner /\ [][NextPlanner]_vars

(* ---------------------------------------------------------------------- *)
(* The remote executor on its own (deploy/remote-exec.mjs)                 *)
(* ---------------------------------------------------------------------- *)
\* A text is the sequence of its parts; " " and "\n" are its white space.
WhiteSpace == {" ", "\n"}

RECURSIVE TrimLeft(_)
TrimLeft(text) ==
  IF text # <<>> /\ text[1] \in WhiteSpace THEN TrimLeft(Tail(text)) ELSE text

RECURSIVE TrimRight(_)
TrimRight(text) ==
  IF text # <<>> /\ text[Len(text)] \in WhiteSpace
  THEN TrimRight(SubSeq(text, 1, Len(text) - 1))
  ELSE text

\* String.prototype.trim
TrimText(text) == TrimRight(TrimLeft(text))

\* `text && text.trim()`: the empty string is falsy
NonBlank(text) == TrimText(text) # <<>>

\* /pattern/.test(text)
Test(pattern, text) == \E i \in 1..Len(text) : text[i] = pattern

\* what ssh.execCommand can resolve with
Stdouts == {<<>>, <<" ", "\n">>, <<"out">>, <<"Already up to date.", "\n">>}
Stderrs ==
  {<<>>, <<"\n">>, <<"err">>,
   <<"bash: npm: ", "command not found", "\n">>,
   <<"'php' ", "is not recognized", " as an internal or external command">>}
ExecCodes == {0, 1, 2, 127}
ExecResults == [stdout : Stdouts, stderr : Stderrs, code : ExecCodes]

ExecCalls ==
  {[label |-> "Do thing", command |-> "do-thing"],
   [label |-> "Compile frontend assets", command |-> "npm run build"]}

InitExec ==
  /\ InitFiles
  /\ localSnap = NoSnapshots
  /\ repo = OffRepo
  /\ planner = OffPlanner
  /\ scenario = "executor"
  /\ \E call \in ExecCalls, allowFailure \in BOOLEAN :
       exec = [OffExec EXCEPT !.pc = "call", !.label = call.label,
                              !.command = call.command,
                              !.allowFailure = allowFailure]

\* a line for the operator or an entry of the log file: `[label] kind:` and
\* the text under it
Event(sink, kind, label, text) ==
  [sink |-> sink, kind |-> kind, label |-> label, text |-> text]

\* logProcessing and `await ssh.execCommand(wrappedCommand, execOptions)`
ExecCommand ==
  /\ exec.pc = "call"
  /\ \E result \in ExecResults :
       exec' = [exec EXCEPT
                  !.events = @ \o <<Event("operator", "processing", exec.label, <<>>)>>,
                  !.result = result,
                  !.pc = "ran"]
  /\ UNCHANGED <<Fs, clock, scenario, run, repo, planner>>

\* variant: the streams of a command that succeeded are not kept
WriteLogs_OnFailure(label, result) ==
  IF result.code = 0 THEN <<>>
  ELSE Opt(NonBlank(result.stdout), Event("file", "STDOUT", label, TrimText(result.stdout)))
         \o Opt(NonBlank(result.stderr), Event("file", "STDERR", label, TrimText(result.stderr)))

\* the two writeToLogFile calls
WriteLogs(label, result) ==
  Opt(NonBlank(result.stdout), Event("file", "STDOUT", label, TrimText(result.stdout)))
    \o Opt(NonBlank(result.stderr), Event("file", "STDERR", label, TrimText(result.stderr)))

ExecWriteLogs ==
  /\ exec.pc = "ran"
  /\ exec' = [exec EXCEPT !.events = @ \o WriteLogs(exec.label, exec.result),
                          !.pc = "logged"]
  /\ UNCHANGED <<Fs, clock, scenario, run, repo, planner>>

\* `if (result.code !== 0) { logError(Output); logError(Error) }`
ShowFailure(label, result) ==
  IF result.code # 0
  THEN Opt(NonBlank(result.stdout), Event("operator", "Output", label, TrimText(result.stdout)))
         \o Opt(NonBlank(result.stderr), Event("operator", "Error", label, TrimText(result.stderr)))
  ELSE <<>>

PathHint ==
  ". Ensure the remote environment loads required tools for non-interactive shells (e.g. export PATH in profile scripts)."

\* the message of the error thrown for a failed command
FailureMessage(command, result) ==
  LET stderr == TrimText(result.stderr)
  IN  IF Test("command not found", stderr) \/ Test("is not recognized", stderr)
      THEN <<"Command failed: ", command, PathHint>>
      ELSE <<"Command failed: ", command>>

\* the rest of executeRemote: it throws
ExecThrow ==
  /\ exec.pc = "logged"
  /\ ExecuteRemoteThrows(exec.result.code, exec.allowFailure)
  /\ exec' = [exec EXCEPT
                !.events = @ \o ShowFailure(exec.label, exec.result),
                !.message = FailureMessage(exec.command, exec.result),
                !.pc = "thrown"]
  /\ UNCHANGED <<Fs, clock, scenario, run, repo, planner>>

\* the rest of executeRemote: it returns the result
ExecReturn ==
  /\ exec.pc = "logged"
  /\ ~ExecuteRemoteThrows(exec.result.code, exec.allowFailure)
  /\ exec' = [exec EXCEPT
                !.events = @ \o ShowFailure(exec.label, exec.result)
                             \o Opt(exec.result.code = 0,
                                    Event("operator", "success", exec.label, <<>>)),
                !.pc = "returned"]
  /\ UNCHANGED <<Fs, clock, scenario, run, repo, planner>>

NextExec == ExecCommand \/ ExecWriteLogs \/ ExecThrow \/ ExecReturn

SpecExec == InitExec /\ [][NextExec]_vars

(* ---------------------------------------------------------------------- *)
(* Properties                                                              *)
(* ---------------------------------------------------------------------- *)
Has(rec, event) == \E i \in 1..Len(rec.trace) : rec.trace[i] = event

\* first position of an event in the trace (0 when it is not there)
FirstIndex(rec, event) ==
  IF Has(rec, event)
  THEN CHOOSE i \in 1..Len(rec.trace) :
         /\ rec.trace[i] = event
         /\ \A j \in 1..(i - 1) : rec.trace[j] # event
  ELSE 0

\* between the return of acquireRemoteLock and the start of the cleanup
BodyPcs == {"laravel_check", "fetch", "diff", "plan", "save_snapshot",
            "record_snapshot", "exec", "clear_remote", "clear_local"}

HoldsLock(r) == run[r].lockAcquired /\ run[r].pc \in BodyPcs

\* acquireRemoteLock is deciding about a marker it found
DecidingPcs == {"lock_check", "lock_read_local", "cmp_local", "cmp_remote",
                "cmp_prompt", "cmp_unlink"}

FourFieldsEqual(a, b) ==
  /\ a.user = b.user
  /\ a.pid = b.pid
  /\ a.hostname = b.hostname
  /\ a.startedAt = b.startedAt

\* C1 (as stated): two runs against the same remote project directory never
\* both hold the lock, whatever the interleaving of their remote commands.
C1_MutualExclusion ==
  \A a, b \in Runs : a # b => ~(HoldsLock(a) /\ HoldsLock(b))

\* C1 (amended): two runs both hold the lock only when each of them read the
\* remote marker as absent (both reads came before both writes) or when one
\* of them removed a matching marker after the operator confirmed; a run that
\* finds the other's marker and gets no confirmation never holds the lock.
C1_ExclusionOutsideRace ==
  \A a, b \in Runs :
    (a # b /\ HoldsLock(a) /\ HoldsLock(b)) =>
      \/ run[a].checkResult = None /\ run[b].checkResult = None
      \/ run[a].removed
      \/ run[b].removed

C1_Witness ==
  \E a, b \in Runs :
    /\ a # b
    /\ HoldsLock(a)
    /\ run[b].checkResult = remoteLock
    /\ run[b].checkResult # None
    /\ run[b].error = "wrapped"
    /\ ~run[b].lockAcquired

C3_StaleSelfAuthoredLock ==
  \A r \in Runs :
    LET rec == run[r]
        compared == rec.cmpFrom = "acquire" /\ rec.cmpLocal # None /\ rec.cmpRemote # None
    IN  /\ (compared /\ FourFieldsEqual(Val(rec.cmpLocal), Val(rec.cmpRemote)))
             => (rec.pc = "cmp_prompt" \/ Has(rec, "prompt.stale"))
        /\ (compared /\ ~FourFieldsEqual(Val(rec.cmpLocal), Val(rec.cmpRemote)))
             => /\ ~Has(rec, "prompt.stale")
                /\ rec.pc \in {"dispose", "exit"}
                /\ rec.error = "wrapped"
                /\ ~rec.lockAcquired
        /\ rec.removed =>
             /\ rec.pc \in {"lock_write", "lock_local"} \/ rec.lockAcquired
             /\ rec.pc = "lock_write" => (remoteLock = None /\ localLock[rec.ws] = None)
             /\ rec.pc = "laravel_check" =>
                  /\ remoteLock # None /\ Val(remoteLock).pid = PidOf(r)
                  /\ localLock[rec.ws] # None /\ Val(localLock[rec.ws]).pid = PidOf(r)
                  /\ Val(remoteLock) # Val(rec.cmpRemote)

C3_Witness ==
  \E r \in Runs :
    /\ run[r].removed
    /\ run[r].pc = "laravel_check"
    /\ run[r].lockAcquired
    /\ remoteLock # None
    /\ localLock[run[r].ws] # None

\* C4: when the remote marker is present at the check and the run gets no
\* confirmed removal (no local marker, differing payloads, or the operator
\* declines), acquireRemoteLock throws and the run issues no git fetch, git
\* diff, snapshot write or plan step.
C4_LockConflictIsFatal ==
  \A r \in Runs :
    LET rec == run[r] IN
    (rec.checkResult # None /\ ~rec.removed /\ rec.pc \notin DecidingPcs) =>
      /\ rec.error = "wrapped"
      /\ ~rec.lockAcquired
      /\ rec.pc \in {"dispose", "exit"}
      /\ ~Has(rec, "git.fetch")
      /\ ~Has(rec, "git.diff")
      /\ ~Has(rec, "snapshot.save")
      /\ ~Has(rec, "snapshot.record")
      /\ ~Has(rec, "step")

C4_Witness ==
  \E r \in Runs :
    /\ run[r].checkResult # None
    /\ Has(run[r], "prompt.stale")
    /\ ~run[r].removed
    /\ run[r].pc = "dispose"
    /\ run[r].error = "wrapped"

\* C5: once acquireRemoteLock has returned, the payload in the local lock
\* file and the payload in the remote lock file agree in user, pid, hostname
\* and startedAt.
C5_PayloadIdentity ==
  \A r \in Runs :
    (run[r].pc = "laravel_check" /\ remoteLock # None /\ localLock[run[r].ws] # None)
      => FourFieldsEqual(Val(localLock[run[r].ws]), Val(remoteLock))


C5_Witness ==
  \E r \in Runs :
    /\ run[r].pc = "laravel_check"
    /\ remoteLock # None
    /\ localLock[run[r].ws] # None
    /\ Val(remoteLock).startedAt # Val(localLock[run[r].ws]).startedAt

MutatingCommands == {"git.fetch", "snapshot.record", "step"}

\* C6: no git fetch, pending-snapshot write or plan step is issued by a run
\* before its acquireRemoteLock has returned successfully.
C6_LockBeforeMutation ==
  \A r \in Runs :
    (\E e \in MutatingCommands : Has(run[r], e)) =>
      /\ run[r].lockAcquired
      /\ Has(run[r], "lock.write")
      /\ \A e \in MutatingCommands :
           Has(run[r], e) => FirstIndex(run[r], "lock.write") < FirstIndex(run[r], e)

C6_Witness ==
  \E r \in Runs :
    /\ Has(run[r], "git.fetch")
    /\ Has(run[r], "snapshot.record")
    /\ Has(run[r], "step")
    /\ run[r].lockAcquired

\* C7: a run writes the pending snapshot exactly when its plan has more than
\* one step, and then the local write and the remote write are both done
\* before the first plan step is issued.
C7_SnapshotPersistence ==
  \A r \in Runs :
    LET rec == run[r] IN
    /\ Has(rec, "snapshot.save") => Len(rec.steps) > 1
    /\ Has(rec, "snapshot.record") => Has(rec, "snapshot.save")
    /\ Has(rec, "step") =>
         /\ Len(rec.steps) > 1 <=> Has(rec, "snapshot.save")
         /\ Len(rec.steps) > 1 <=> Has(rec, "snapshot.record")
         /\ Len(rec.steps) > 1 =>
              /\ FirstIndex(rec, "snapshot.save") < FirstIndex(rec, "snapshot.record")
              /\ FirstIndex(rec, "snapshot.record") < FirstIndex(rec, "step")
    /\ (rec.pc = "exec" /\ rec.executed = <<>> /\ Len(rec.steps) > 1) =>
         /\ rec.pendingSnapshot # None
         /\ localSnap[rec.ws] = rec.pendingSnapshot
         /\ remoteSnap = rec.pendingSnapshot

C7_Witness ==
  \E r \in Runs :
    /\ run[r].pc = "exec"
    /\ Len(run[r].executed) = 1
    /\ Len(run[r].steps) > 1
    /\ localSnap[run[r].ws] = run[r].pendingSnapshot
    /\ remoteSnap = run[r].pendingSnapshot

\* a plan step of the run has failed
StepFailed(rec) == rec.error = "wrapped" /\ rec.executed # <<>> /\ ~rec.completed

\* C8: runRemoteTasks removes the local and the remote pending snapshot only
\* after every plan step has run without error; when a plan step fails, both
\* copies are still there when runRemoteTasks throws.
C8_SnapshotSurvivesFailure ==
  /\ [][ /\ \A w \in Workstations :
              (localSnap[w] # None /\ localSnap'[w] = None) =>
                \E r \in Runs :
                  /\ run[r].ws = w
                  /\ \/ run[r].pc = "main_discard"
                     \/ run[r].pc = "clear_local" /\ run[r].completed
         /\ (remoteSnap # None /\ remoteSnap' = None) =>
              \E r \in Runs : run[r].pc = "clear_remote" /\ run[r].completed
       ]_vars
  /\ [](\A r \in Runs :
          (run[r].pc = "dispose" /\ StepFailed(run[r]) /\ Len(run[r].steps) > 1) =>
            /\ localSnap[run[r].ws] = run[r].pendingSnapshot
            /\ remoteSnap = run[r].pendingSnapshot
            /\ run[r].pendingSnapshot # None)

C8_Witness ==
  \E r \in Runs :
    /\ run[r].pc = "dispose"
    /\ StepFailed(run[r])
    /\ Len(run[r].steps) > 1
    /\ localSnap[run[r].ws] # None
    /\ remoteSnap # None

IsPrefix(s, t) == Len(s) <= Len(t) /\ SubSeq(t, 1, Len(s)) = s

\* C9: a run that was given a confirmed snapshot issues no git fetch and no
\* git diff, and the steps it executes are the planner's output for the
\* snapshot's changedFiles.
C9_ResumeWithoutRederiving ==
  \A r \in Runs :
    LET rec == run[r] IN
    rec.snapshot # None =>
      /\ ~Has(rec, "git.fetch")
      /\ ~Has(rec, "git.diff")
      /\ rec.steps # <<>> =>
           rec.steps = planLaravelDeploymentTasks(rec.config.branch, rec.isLaravel,
                         Val(rec.snapshot).changedFiles, rec.horizonConfigured)
      /\ IsPrefix(rec.executed,
                  Labels(planLaravelDeploymentTasks(rec.config.branch, rec.isLaravel,
                           Val(rec.snapshot).changedFiles, rec.horizonConfigured)))
      /\ rec.completed =>
           rec.executed =
             Labels(planLaravelDeploymentTasks(rec.config.branch, rec.isLaravel,
                      Val(rec.snapshot).changedFiles, rec.horizonConfigured))

C9_Witness ==
  \E r \in Runs :
    /\ run[r].snapshot # None
    /\ run[r].completed
    /\ Len(run[r].executed) > 1

\* C10: the labels of the steps a resumed run executes, in order, are the
\* snapshot's stored taskLabels, whatever the project-type probe, the
\* queue-dashboard probe and the current target branch are.
C10_ResumeReplaysStoredPlan ==
  \A r \in Runs :
    (run[r].snapshot # None /\ run[r].completed) =>
      run[r].executed = Val(run[r].snapshot).taskLabels

\* C11: a pending snapshot reaches runRemoteTasks only after the operator
\* answered yes to the resume prompt; the prompt's default is yes exactly when
\* the snapshot's serverName and branch both equal the selected target's;
\* after a decline the local snapshot file is gone, no snapshot is passed, and
\* a run without a snapshot derives its change set with git fetch and git
\* diff and plans from it.
C11_ResumeNeedsConsent ==
  \A r \in Runs :
    LET rec == run[r]
        existing == localSnap[rec.ws]
    IN  /\ (rec.pc = "reconcile" /\ rec.snapshot # None) =>
             /\ rec.resumePendingTasks = Some(TRUE)
             /\ rec.promptDefault = Some(TRUE) <=>
                  /\ Val(rec.snapshot).serverName = rec.config.serverName
                  /\ Val(rec.snapshot).branch = rec.config.branch
        /\ rec.pc = "main_discard" =>
             /\ rec.resumePendingTasks = Some(FALSE)
             /\ rec.snapshot = None
             /\ existing # None
             /\ rec.promptDefault = Some(TRUE) <=>
                  /\ Val(existing).serverName = rec.config.serverName
                  /\ Val(existing).branch = rec.config.branch
        /\ (rec.pc = "reconcile" /\ rec.resumePendingTasks = Some(FALSE)) =>
             /\ existing = None
             /\ rec.snapshot = None
        /\ (rec.snapshot = None /\ rec.steps # <<>>) =>
             /\ rec.isLaravel => (Has(rec, "git.fetch") /\ Has(rec, "git.diff"))
             /\ ~rec.isLaravel => rec.changedFiles = <<>>
             /\ rec.steps = planLaravelDeploymentTasks(rec.config.branch, rec.isLaravel,
                               rec.changedFiles, rec.horizonConfigured)

C11_Witness ==
  \E r \in Runs :
    /\ run[r].pc = "reconcile"
    /\ run[r].resumePendingTasks = Some(FALSE)
    /\ run[r].promptDefault = Some(TRUE)
    /\ localSnap[run[r].ws] = None

\* C12: a plan step is issued only by the loop, it is the step that follows
\* the ones already issued in the planner's order, and every step issued
\* before it has returned exit code 0; once a step has failed the run issues
\* no further plan step.
C12_SequentialExecutionWithAbort ==
  /\ [][ \A r \in Runs :
           (run'[r].executed # run[r].executed /\ run'[r].pc # "gone") =>
             /\ run[r].pc = "exec"
             /\ run[r].error = "none"
             /\ Len(run[r].executed) < Len(run[r].steps)
             /\ run'[r].executed =
                  Append(run[r].executed, run[r].steps[Len(run[r].executed) + 1].label)
       ]_vars
  /\ [](\A r \in Runs :
          /\ IsPrefix(run[r].executed, Labels(run[r].steps))
          /\ StepFailed(run[r]) => run[r].pc \notin {"exec", "clear_remote", "clear_local"})

C12_Witness ==
  \E r \in Runs :
    /\ run[r].pc = "dispose"
    /\ StepFailed(run[r])
    /\ Len(run[r].executed) >= 2
    /\ Len(run[r].executed) < Len(run[r].steps)

\* C13: whenever runRemoteTasks ends with an error, the error is the wrapped
\* one ('Deployment failed: ' and the cause's message), wherever the failure
\* arose: reconciler, linting, local tests, key read, connection, locking,
\* planning or step execution.
C13_WrappedFailures ==
  \A r \in Runs :
    (run[r].pc = "exit" /\ run[r].error # "none" /\ run[r].cause # "main") =>
      run[r].error = "wrapped"

\* C14: a run whose reconciler, linting or local test run failed has not
\* called ssh.connect and has issued no remote command.
C14_PrechecksBeforeNetwork ==
  \A r \in Runs :
    run[r].cause \in {"reconciler", "lint", "tests"} =>
      /\ run[r].trace = <<>>
      /\ run[r].pc = "exit"
      /\ ~run[r].lockAcquired

C14_Witness ==
  \E r \in Runs :
    /\ run[r].cause = "tests"
    /\ run[r].pc = "exit"
    /\ remoteLock = None

RHas(event) == \E i \in 1..Len(repo.trace) : repo.trace[i] = event

RCount(event) == Cardinality({i \in 1..Len(repo.trace) : repo.trace[i] = event})

\* C15: when ensureLocalRepositoryState has returned for a branch with an
\* upstream, the checked-out branch is the target branch, the branch is not
\* behind its upstream, the index holds no uncommitted change, and the
\* remote-tracking ref exists with no local commit ahead of it.
C15_ReconcilerPostcondition ==
  (repo.pc = "returned" /\ repo.upstream # "none") =>
    /\ repo.branch = repo.targetBranch
    /\ repo.behind[repo.targetBranch] = 0
    /\ \A i \in 1..Len(repo.tree) : ~IsStaged(repo.tree[i])
    /\ repo.refExists
    /\ repo.ahead[repo.targetBranch] = 0

C15_Witness ==
  /\ repo.pc = "returned"
  /\ repo.upstream = "fork"
  /\ repo.start.branch # repo.targetBranch
  /\ RHas("git.pull")
  /\ RHas("git.checkout")
  /\ RHas("git.push.upstream")

OnlyUntracked(status) ==
  /\ status # <<>>
  /\ \A i \in 1..Len(status) : status[i][1] = "?" /\ status[i][2] = "?"

\* C16: a run of ensureLocalRepositoryState that starts with nothing but
\* untracked files in the working tree does not throw the uncommitted-changes
\* error, whether or not the target branch has to be checked out.
C16_UntrackedNeverBlock ==
  (repo.pc = "thrown" /\ OnlyUntracked(repo.start.tree)) =>
    repo.cause # "uncommitted-changes"

RoundTrip == <<"prompt", "git.commit", "git.push.origin", "git.status">>

\* the trace from the prompt on, cut after the four steps of the round trip
FromPrompt ==
  LET i == CHOOSE k \in 1..Len(repo.trace) :
             repo.trace[k] = "prompt" /\ \A j \in 1..(k - 1) : repo.trace[j] # "prompt"
      rest == SubSeq(repo.trace, i, Len(repo.trace))
  IN  IF Len(rest) > Len(RoundTrip) THEN SubSeq(rest, 1, Len(RoundTrip)) ELSE rest

\* C17: started on the target branch with staged changes, the reconciler
\* prompts once and then commits, pushes to origin/<target> and reads the
\* status again, in this order; it returns only after all four with a final
\* status that reports nothing, and throws when the final status reports
\* anything.
C17_CommitRoundTrip ==
  ( /\ repo.start.branch = repo.targetBranch
    /\ \E i \in 1..Len(repo.start.tree) : IsStaged(repo.start.tree[i]) ) =>
    /\ RCount("prompt") <= 1
    /\ RCount("git.commit") <= 1
    /\ RCount("git.push.origin") <= 1
    /\ RHas("prompt") => IsPrefix(FromPrompt, RoundTrip)
    /\ (RHas("git.commit") \/ RHas("git.push.origin") \/ repo.finalStatus # None)
         => RHas("prompt")
    /\ repo.pc = "returned" =>
         /\ RCount("prompt") = 1
         /\ FromPrompt = RoundTrip
         /\ repo.finalStatus = Some(<<>>)
    /\ (repo.finalStatus # None /\ Val(repo.finalStatus) # <<>>) =>
         (repo.pc = "thrown" /\ repo.cause = "still-dirty")

C17_Witness ==
  /\ repo.start.branch = repo.targetBranch
  /\ \E i \in 1..Len(repo.start.tree) : IsStaged(repo.start.tree[i])
  /\ repo.pc = "returned"
  /\ RHas("git.push.origin")
  /\ repo.finalStatus = Some(<<>>)

\* place of a step in the planner's fixed order after the pull (0: not one
\* of the six)
Rank(step) ==
  IF step = ComposerStep THEN 1
  ELSE IF step = MigrateStep THEN 2
  ELSE IF step = NpmInstallStep THEN 3
  ELSE IF step = BuildStep THEN 4
  ELSE IF step = ClearCachesStep THEN 5
  ELSE IF step = QueueStep(TRUE) \/ step = QueueStep(FALSE) THEN 6
  ELSE 0

\* C18: the planner's result starts with the pull of the given branch, and
\* what follows is taken from backend dependency install, migrations, JS
\* dependency install, build, cache clear, queue restart, in this order and
\* each at most once.
C18_PlannerShape ==
  planner.pc = "returned" =>
    /\ Len(planner.steps) >= 1
    /\ planner.steps[1].label = <<"Pull latest changes for ", planner.branch>>
    /\ planner.steps[1].command = <<"git pull origin ", planner.branch>>
    /\ \A i \in 2..Len(planner.steps) : Rank(planner.steps[i]) >= 1
    /\ \A i, j \in 2..Len(planner.steps) :
         i < j => Rank(planner.steps[i]) < Rank(planner.steps[j])

C18_Witness ==
  /\ planner.pc = "returned"
  /\ planner.branch = "develop"
  /\ Len(planner.steps) = 5
  /\ Rank(planner.steps[2]) = 1
  /\ Rank(planner.steps[5]) = 6

MatchesSomePredicate(file) ==
  \/ IsComposerFile(file)
  \/ IsMigrationFile(file)
  \/ IsPhpFile(file)
  \/ IsNpmFile(file)
  \/ IsFrontendFile(file)

\* C19: the plan is the pull alone when isLaravel is false, whatever the
\* changed files, and when isLaravel is true and no changed file matches any
\* of the path predicates.
C19_TrivialPlan ==
  ( /\ planner.pc = "returned"
    /\ \/ ~planner.isLaravel
       \/ \A i \in 1..Len(planner.changedFiles) :
            ~MatchesSomePredicate(planner.changedFiles[i]) ) =>
    /\ Len(planner.steps) = 1
    /\ planner.steps[1].command = <<"git pull origin ", planner.branch>>

C19_Witness ==
  /\ planner.pc = "returned"
  /\ planner.isLaravel
  /\ planner.changedFiles = <<FMigrationNote, FReadme>>
  /\ Len(planner.steps) = 1

\* C20: for a Laravel project and changed files with a .php file under
\* database/migrations/, the plan has the migration step, after the pull and,
\* when the Composer install is in the plan too, after it.
C20_MigrationsPosition ==
  ( /\ planner.pc = "returned"
    /\ planner.isLaravel
    /\ \E i \in 1..Len(planner.changedFiles) :
         /\ StartsWith(planner.changedFiles[i], <<"database", "/", "migrations", "/">>)
         /\ EndsWith(planner.changedFiles[i], <<".php">>) ) =>
    \E m \in 2..Len(planner.steps) :
      /\ planner.steps[m].command = <<"php", " artisan migrate --force">>
      /\ \A c \in 1..Len(planner.steps) :
           planner.steps[c].label = <<"Install Composer dependencies">> => c < m

C20_Witness ==
  /\ planner.pc = "returned"
  /\ planner.isLaravel
  /\ planner.changedFiles = <<FMigration, FNestedLock>>
  /\ Len(planner.steps) = 5
  /\ planner.steps[3].command = <<"php", " artisan migrate --force">>

PlanHas(command) ==
  \E i \in 1..Len(planner.steps) : planner.steps[i].command = command

PlanCount(commands) ==
  Cardinality({i \in 1..Len(planner.steps) : planner.steps[i].command \in commands})

InstallCommands ==
  {<<"composer.lock check; ", "php", " composer install --no-dev">>, <<"npm install">>}

\* C21: a plan with an install step (the Composer install or the npm
\* install) has the frontend build too, even when no frontend file changed.
C21_InstallImpliesBuild ==
  planner.pc = "returned" =>
    ((\E c \in InstallCommands : PlanHas(c)) => PlanHas(<<"npm run build">>))

\* C21, amended: a plan with the npm install has the frontend build too, even
\* when no frontend file changed; a plan whose only install step is the
\* Composer install has the build only when a frontend source file changed.
C21_NpmInstallImpliesBuild ==
  planner.pc = "returned" =>
    /\ PlanHas(<<"npm install">>) => PlanHas(<<"npm run build">>)
    /\ ( /\ PlanHas(<<"composer.lock check; ", "php", " composer install --no-dev">>)
         /\ ~PlanHas(<<"npm install">>)
         /\ PlanHas(<<"npm run build">>) ) =>
         \E i \in 1..Len(planner.changedFiles) :
           \E ext \in {".vue", ".css", ".scss", ".js", ".ts", ".tsx", ".less"} :
             EndsWith(planner.changedFiles[i], <<ext>>)

C21_Witness ==
  /\ planner.pc = "returned"
  /\ planner.changedFiles = <<FPackageLock, FComposer>>
  /\ Len(planner.steps) = 4
  /\ planner.steps[3].command = <<"npm install">>
  /\ planner.steps[4].command = <<"npm run build">>

NpmManifestChanged ==
  \E i \in 1..Len(planner.changedFiles) :
    LET file == planner.changedFiles[i]
    IN  \/ file \in {<<"package", ".json">>, <<"package-lock", ".json">>}
        \/ EndsWith(file, <<"/", "package", ".json">>)
        \/ EndsWith(file, <<"/", "package-lock", ".json">>)

FrontendSourceChanged ==
  \E i \in 1..Len(planner.changedFiles) :
    \E ext \in {".vue", ".css", ".scss", ".js", ".ts", ".tsx", ".less"} :
      EndsWith(planner.changedFiles[i], <<ext>>)

\* C22: for a Laravel project the plan has `npm install` exactly when
\* package.json or package-lock.json changed at any depth, and it has
\* `npm run build` exactly when it has `npm install` or some changed file
\* ends in .vue, .css, .scss, .js, .ts, .tsx or .less.
C22_BuildTriggers ==
  (planner.pc = "returned" /\ planner.isLaravel) =>
    /\ PlanHas(<<"npm install">>) <=> NpmManifestChanged
    /\ PlanHas(<<"npm run build">>) <=>
         (PlanHas(<<"npm install">>) \/ FrontendSourceChanged)

C22_Witness ==
  /\ planner.pc = "returned"
  /\ planner.isLaravel
  /\ planner.changedFiles = <<FNestedPackage, FReadme>>
  /\ ~FrontendSourceChanged
  /\ PlanHas(<<"npm install">>)
  /\ PlanHas(<<"npm run build">>)

CacheClearCommand ==
  <<"php", " artisan cache:clear && ", "php", " artisan config:clear && ",
    "php", " artisan view:clear">>

QueueCommands ==
  {<<"php", " artisan horizon:terminate">>, <<"php", " artisan queue:restart">>}

\* C23: for a Laravel project with a changed .php file the plan has the
\* cache clear directly followed by the one queue step of the plan, which is
\* horizon:terminate when Horizon is configured and queue:restart otherwise;
\* without a changed .php file the plan has neither of the two steps.
C23_QueueRestartVariant ==
  (planner.pc = "returned" /\ planner.isLaravel) =>
    IF \E i \in 1..Len(planner.changedFiles) :
         EndsWith(planner.changedFiles[i], <<".php">>)
    THEN /\ PlanCount({CacheClearCommand}) = 1
         /\ PlanCount(QueueCommands) = 1
         /\ \E i \in 1..(Len(planner.steps) - 1) :
              /\ planner.steps[i].command = CacheClearCommand
              /\ planner.steps[i + 1].command =
                   IF planner.horizonConfigured
                   THEN <<"php", " artisan horizon:terminate">>
                   ELSE <<"php", " artisan queue:restart">>
    ELSE /\ PlanCount({CacheClearCommand}) = 0
         /\ PlanCount(QueueCommands) = 0

C23_Witness ==
  /\ planner.pc = "returned"
  /\ planner.isLaravel
  /\ planner.horizonConfigured
  /\ planner.changedFiles = <<FPhp>>
  /\ Len(planner.steps) = 3
  /\ planner.steps[3].label = <<"Restart Horizon workers">>

EndToEndFiles ==
  << <<"composer", ".json">>,
     <<"database", "/", "migrations", "/", "2025_01_01_create_x", ".php">>,
     <<"resources", "/", "js", "/", "app", ".js">> >>

ExecDone == exec.pc \in {"thrown", "returned"}

\* C25: executeRemote throws exactly when the exit code is not zero and
\* allowFailure is not set, and the message of the error starts with
\* 'Command failed: ' and the command; with allowFailure it returns the
\* result for every exit code.
C25_ExecutorFailureRule ==
  /\ ExecDone =>
       (exec.pc = "thrown" <=> (exec.result.code # 0 /\ ~exec.allowFailure))
  /\ exec.pc = "thrown" =>
       /\ Len(exec.message) >= 2
       /\ exec.message[1] = "Command failed: "
       /\ exec.message[2] = exec.command
       /\ Len(exec.message) = 2 \/
            \E i \in 1..Len(exec.result.stderr) :
              exec.result.stderr[i] \in {"command not found", "is not recognized"}
  /\ (exec.pc = "logged" /\ exec.allowFailure) => ENABLED ExecReturn

C25_Witness ==
  /\ exec.pc = "thrown"
  /\ exec.command = "do-thing"
  /\ exec.result = [stdout |-> <<"out">>, stderr |-> <<"err">>, code |-> 2]
  /\ exec.message = <<"Command failed: ", "do-thing">>

Blank(text) == \A i \in 1..Len(text) : text[i] \in {" ", "\n"}

EventsOf(sink, kind) ==
  {i \in 1..Len(exec.events) :
     exec.events[i].sink = sink /\ exec.events[i].kind = kind}

\* C30: by the time executeRemote has written its log entries, and so before
\* it throws or returns, the log file has one STDOUT entry exactly when stdout
\* has text and one STDERR entry exactly when stderr has text, whatever the
\* exit code; when it is done the operator has been shown the streams that
\* have text exactly when the exit code is not zero, and the success line
\* exactly when it is zero.
C30_ExecutorLogging ==
  /\ exec.pc \in {"logged", "thrown", "returned"} =>
       /\ Cardinality(EventsOf("file", "STDOUT")) =
            (IF Blank(exec.result.stdout) THEN 0 ELSE 1)
       /\ Cardinality(EventsOf("file", "STDERR")) =
            (IF Blank(exec.result.stderr) THEN 0 ELSE 1)
       /\ \A i \in EventsOf("file", "STDOUT") \cup EventsOf("file", "STDERR") :
            exec.events[i].label = exec.label
  /\ exec.pc \in {"call", "ran", "logged"} =>
       /\ EventsOf("operator", "Output") = {}
       /\ EventsOf("operator", "Error") = {}
       /\ EventsOf("operator", "success") = {}
  /\ ExecDone =>
       /\ EventsOf("operator", "Output") # {} <=>
            (exec.result.code # 0 /\ ~Blank(exec.result.stdout))
       /\ EventsOf("operator", "Error") # {} <=>
            (exec.result.code # 0 /\ ~Blank(exec.result.stderr))
       /\ Cardinality(EventsOf("operator", "success")) =
            (IF exec.result.code = 0 THEN 1 ELSE 0)
       /\ \A f \in EventsOf("file", "STDOUT") \cup EventsOf("file", "STDERR") :
            \A o \in EventsOf("operator", "Output") \cup EventsOf("operator", "Error")
                       \cup EventsOf("operator", "success") : f < o

C30_Witness ==
  /\ exec.pc = "returned"
  /\ exec.result.code = 0
  /\ exec.result.stdout = <<"Already up to date.", "\n">>
  /\ exec.result.stderr = <<"err">>
  /\ Cardinality(EventsOf("file", "STDOUT")) = 1
  /\ Cardinality(EventsOf("file", "STDERR")) = 1
  /\ EventsOf("operator", "success") # {}

\* C26: a failed removal of the remote or of the local lock marker in the
\* outer finally is followed by a warning, and the release steps leave the
\* error of the run as it was.
C26_ReleaseFailuresAreWarnings ==
  /\ [](\A r \in Runs : \A i \in 1..Len(run[r].trace) :
          run[r].trace[i] \in {"lock.release.failed", "lock.unlink.failed"} =>
            (i < Len(run[r].trace) /\ run[r].trace[i + 1] = "warn"))
  /\ [][\A r \in Runs :
          (run[r].pc \in {"release_remote", "release_local"} /\ run'[r] # run[r]
             /\ run'[r] # GoneRun) =>
            (run'[r].error = run[r].error /\ run'[r].cause = run[r].cause)]_vars

\* C27: a run whose plan steps all succeeded ends without an error, whatever
\* the removal of the remote snapshot and the deletion of the local one did.
C27_SnapshotClearFailuresAreWarnings ==
  \A r \in Runs :
    (run[r].completed /\ run[r].pc \in {"dispose", "exit"}) => run[r].error = "none"

\* C28: once the snapshot has been cleared after a successful plan, the
\* remote removal was issued and the local copy is gone; once the operator
\* has declined the resume prompt of main and the snapshot has been discarded,
\* neither the local nor the remote copy exists.
C28_ClearRemovesBothCopies ==
  \A r \in Runs :
    /\ (run[r].completed /\ run[r].pc = "release_remote") =>
         (Has(run[r], "snapshot.rm") => localSnap[run[r].ws] = None)
    /\ (run[r].pc = "reconcile" /\ run[r].resumePendingTasks = Some(FALSE)) =>
         (localSnap[run[r].ws] = None /\ remoteSnap = None)

\* the acquisition of the run has failed on a marker it found and did not
\* remove
ConflictFailed(rec) ==
  /\ rec.checkResult # None
  /\ ~rec.removed
  /\ ~rec.lockAcquired
  /\ rec.error = "wrapped"

\* C29: the step by which an acquisition fails on a conflict, and every step
\* of the run after it, leaves the remote and the local marker as they were;
\* and before a run holds the lock, it removes the remote marker only in the
\* step in which the operator confirms the stale-lock prompt, and the local
\* marker only in the step after that.
C29_FailedAcquisitionChangesNothing ==
  [][\A r \in Runs :
       (run'[r] # run[r] /\ run'[r] # GoneRun) =>
         /\ ConflictFailed(run'[r]) =>
              (remoteLock' = remoteLock /\ localLock' = localLock)
         /\ (~run[r].lockAcquired /\ remoteLock # None /\ remoteLock' = None) =>
              ( /\ run[r].pc = "cmp_prompt"
                /\ run'[r].pc = "cmp_unlink"
                /\ run'[r].trace = run[r].trace \o <<"prompt.stale", "lock.rm">> )
         /\ (~run[r].lockAcquired /\ ~run'[r].lockAcquired /\ localLock' # localLock) =>
              (run[r].pc = "cmp_unlink" /\ Has(run[r], "lock.rm"))]_vars

C29_Witness ==
  \E r \in Runs :
    /\ ConflictFailed(run[r])
    /\ run[r].pc = "exit"
    /\ Has(run[r], "prompt.stale")
    /\ remoteLock # None
    /\ localLock[run[r].ws] # None

RDone == repo.pc \in {"thrown", "returned"}

NeedsSwitch ==
  /\ repo.targetBranch # ""
  /\ repo.start.branch # ""
  /\ repo.start.branch # repo.targetBranch

\* C31: a run of ensureLocalRepositoryState that starts on another branch
\* than the target with a working tree that reports changes ends with a throw
\* and has run no checkout, commit or push; one that starts there with a clean
\* tree and is not stopped by the fast-forward runs the checkout, and reads
\* the status again right after a checkout that worked.
C31_RefuseSwitchWhenDirty ==
  NeedsSwitch =>
    /\ repo.start.tree # <<>> =>
         /\ ~RHas("git.checkout") /\ ~RHas("git.commit")
         /\ ~RHas("git.push.origin") /\ ~RHas("git.push.upstream")
         /\ repo.pc # "returned"
         /\ repo.pc = "thrown" => repo.cause \in {"uncommitted-changes", "fast-forward"}
    /\ (repo.start.tree = <<>> /\ RDone) =>
         /\ RHas("git.checkout") \/ repo.cause = "fast-forward"
         /\ RCount("git.checkout") <= 1
         /\ \A i \in 1..Len(repo.trace) :
              repo.trace[i] = "git.checkout" =>
                IF i = Len(repo.trace) THEN repo.cause = "checkout"
                ELSE repo.trace[i + 1] = "git.status"

C31_Witness ==
  /\ NeedsSwitch
  /\ \E i \in 1..Len(repo.start.tree) : IsStaged(repo.start.tree[i])
  /\ repo.pc = "thrown"
  /\ repo.cause = "uncommitted-changes"
  /\ repo.branch = repo.start.branch

\* C32: a run of ensureLocalRepositoryState that starts on the target branch
\* with a working tree that has changes, none of them staged, neither prompts
\* for a commit message nor runs git commit.
C32_NoCommitWithoutStaged ==
  ( /\ repo.start.branch = repo.targetBranch
    /\ repo.start.tree # <<>>
    /\ \A i \in 1..Len(repo.start.tree) : ~IsStaged(repo.start.tree[i]) ) =>
    (~RHas("prompt") /\ ~RHas("git.commit"))

\* the two markers a run compared during its acquisition were written by one
\* earlier run on the same workstation, which is no longer running
ComparedLeftovers(r) ==
  /\ run[r].cmpFrom = "acquire"
  /\ run[r].cmpLocal # None
  /\ run[r].cmpRemote # None
  /\ run[r].pc # "cmp_remote"
  /\ Val(run[r].cmpLocal).pid = Val(run[r].cmpRemote).pid
  /\ Val(run[r].cmpLocal).pid # PidOf(r)
  /\ Val(run[r].cmpLocal).hostname = Val(run[r].cmpRemote).hostname
  /\ Val(run[r].cmpLocal).user = Val(run[r].cmpRemote).user
  /\ \A o \in Runs \ {r} : ~InFlight(o)

\* C33: a run that finds the local and the remote marker of a run that was
\* killed after its acquireRemoteLock had completed finds them equal in user,
\* pid, hostname and startedAt and is asked whether to remove the stale lock.
C33_CrashRecovery ==
  \A r \in Runs :
    ComparedLeftovers(r) =>
      /\ FourFieldsEqual(Val(run[r].cmpLocal), Val(run[r].cmpRemote))
      /\ run[r].pc = "cmp_prompt" \/ Has(run[r], "prompt.stale")

\* C34: when a run of runRemoteTasks ends after every plan step it issued
\* succeeded, with or without a resumed snapshot, the workstation has no
\* local pending-tasks snapshot.
C34_NoLeftoverSnapshot ==
  \A r \in Runs :
    (run[r].pc = "dispose" /\ run[r].completed /\ run[r].error = "none") =>
      localSnap[run[r].ws] = None

\* C35: when runRemoteTasks reaches ssh.connect for a branch with an upstream,
\* the local target branch has no commit that its upstream lacks, the commit
\* of the linting step included.
C35_NothingUnpushedAtConnect ==
  (repo.pc = "connect" /\ repo.upstream # "none") =>
    repo.ahead[repo.targetBranch] = 0

\* C36: a run whose acquireRemoteLock threw after it had written the remote
\* marker does not leave that marker behind when runRemoteTasks throws.
C36_NoLeakedRemoteMarker ==
  \A r \in Runs :
    (run[r].pc = "dispose" /\ ~run[r].lockAcquired /\ Has(run[r], "lock.write")) =>
      ~(remoteLock # None /\ Val(remoteLock).pid = PidOf(r))

\* C37: a run is asked during its acquisition whether to remove a remote
\* marker only when no other run that is still executing wrote that marker.
C37_StaleMeansDead ==
  \A r \in Runs :
    (run[r].pc = "cmp_prompt" /\ run[r].cmpFrom = "acquire") =>
      ~\E o \in Runs \ {r} :
         /\ InFlight(o)
         /\ Val(run[r].cmpRemote).pid = PidOf(o)

\* C38: the release step of a run removes a remote marker only when the
\* payload of that marker was written by the run itself.
C38_ReleaseOnlyOwnLock ==
  [][\A r \in Runs :
       ( /\ run[r].pc = "release_remote"
         /\ run'[r] # run[r]
         /\ remoteLock # None
         /\ remoteLock' = None ) =>
         Val(remoteLock).pid = PidOf(r)]_vars

====
